---- MODULE Spec2Model ----
(***************************************************************************)
(* Model of CheatRunFixer (fix_cheated_runs.py): the repair transaction    *)
(* (fix_cheated_run), the revert of an audit export (revert_from_csv) and  *)
(* the live batch (fix_cheated_runs) over a checkpoint_statistics table.   *)
(*                                                                         *)
(* The store is a committed table plus the write set of the session's open *)
(* transaction (READ COMMITTED: every statement sees the latest committed  *)
(* rows and the session's own uncommitted writes; rows written by the open *)
(* transaction are locked against other sessions until commit/rollback).   *)
(***************************************************************************)
EXTENDS Integers, FiniteSets, Sequences, TLC

\* ---------------------------------------------------------------- bounds
MaxRun == 2
MaxCp == 3
MaxExt == 1

Runs == 1..MaxRun
CPs == 1..MaxCp
Keys == Runs \X CPs

VARIABLES
    stats,              \* committed checkpoint_statistics: [<<run_id, cp_id>> -> time_played]
    txOpen,             \* number of transactions open on the connection
    txWrites,           \* uncommitted writes of the open transaction: [key -> time_played]
    connected,          \* connection.is_connected()
    pc,                 \* position of the running operation
    run_id, following_cps, adjustment_ticks,   \* arguments of fix_cheated_run
    current_times,      \* pre-update snapshot (dict cp_id -> time_played)
    rows_affected,      \* cursor.rowcount of the UPDATE
    updated_rows,       \* post-update re-read (dict cp_id -> time_played)
    result,             \* return value of fix_cheated_run
    calls,              \* store calls issued by the running fix_cheated_run
    pre,                \* committed table at call entry, with other sessions' later writes applied
    nExt,               \* number of writes of other sessions so far
    checkpoints,        \* table checkpoints: [cp_id -> [mapid, isend]]
    connections,        \* table checkpoint_connections: set of <<cp_id, child_cp_id, mapid>>
    player_runs,        \* table player_runs: [run_id -> [mapid, finished_map, fps]]
    op,                 \* the running top-level operation: "none", "batch" or "revert"
    from_cp_id, to_cp_id, ref_time, dry_run,   \* arguments of fix_cheated_runs
    mapid,              \* map id returned by validate_checkpoints
    cheated_runs,       \* list returned by find_cheated_runs
    rows,               \* rows read by revert_from_csv
    idx,                \* position of the loop over cheated_runs / rows
    csv_data,           \* rows collected for the audit export
    csv_fixed,          \* the audit file written by the last live batch
    reverted,           \* counter of revert_from_csv
    status,             \* return value of fix_cheated_runs / revert_from_csv
    attempted,          \* runs for which the batch has called fix_cheated_run
    outcome,            \* results of these calls: [run_id -> BOOLEAN]
    batchPre,           \* committed table at batch entry, with other sessions' later writes applied
    orig,               \* rows of each run before its last committed repair, idem
    applied,            \* runs whose last committed change is a repair
    to_visit,           \* work-list of the running graph traversal
    visited,            \* set visited of the traversal
    following,          \* set following of get_following_checkpoints
    reachable,          \* flag reachable of validate_checkpoints
    raised,             \* validate_checkpoints raised ValidationError
    expanded,           \* how often each checkpoint's children were fetched: [cp_id -> Nat]
    shuffled,           \* some fetch returned the children in another than ascending order
    warnings,           \* runs for which find_cheated_runs printed "Warning: Skipping run_id"
    accessed,           \* methods of the current batch or revert that queried the store
    validated,          \* <<check, from, to>>: the safety checks the current operation passed
    error,              \* the ValidationError validate_checkpoints raised last, or NoError
    ticks,              \* the argument of the last call of ticks_to_time_format
    formatted,          \* the string it returned, as the sequence of its characters
    response            \* main: the answer to "Do you want to apply these changes?"

dbVars == <<checkpoints, connections, player_runs>>
batchVars == <<op, from_cp_id, to_cp_id, ref_time, dry_run, mapid, cheated_runs, rows, idx,
               csv_data, csv_fixed, reverted, status>>
ghostVars == <<attempted, outcome, batchPre>>
tripVars == <<orig, applied>>
bfsVars == <<to_visit, visited, following, reachable, raised, expanded, shuffled>>
logVars == <<warnings, accessed, validated, error>>
fmtVars == <<ticks, formatted>>
mainVars == <<response>>

vars == <<stats, txOpen, txWrites, connected, pc, run_id, following_cps,
          adjustment_ticks, current_times, rows_affected, updated_rows,
          result, calls, pre, nExt, dbVars, batchVars, ghostVars, tripVars,
          bfsVars, logVars, fmtVars, mainVars>>

Empty == [k \in {} |-> 0]

\* ------------------------------------------------------------ the store
\* What a statement of the session reads: committed rows overlaid with the
\* transaction's own writes.
View == [k \in DOMAIN stats |-> IF k \in DOMAIN txWrites THEN txWrites[k] ELSE stats[k]]

\* SELECT cp_id, time_played FROM checkpoint_statistics WHERE run_id = r
get_checkpoint_times_for_run(r) ==
    [cp \in {c \in CPs : <<r, c>> \in DOMAIN stats} |-> View[<<r, cp>>]]

MatchedKeys_m(r, S) == {k \in DOMAIN stats : k[1] = r}

\* rows matched by  WHERE run_id = r AND cp_id IN (S)
MatchedKeys(r, S) == {k \in DOMAIN stats : k[1] = r /\ k[2] \in S}

UpdateWrites_m(r, S, d) == [k \in {q \in DOMAIN stats : q[2] \in S} |-> View[k] + d]

RowCounts_m(r, S, d) == {Cardinality({k \in DOMAIN stats : k[1] = r})}

\* cursor.rowcount of the UPDATE: the rows changed; an UPDATE adding 0 changes
\* no row, and reports the matched rows when the connection counts found rows
RowCounts(r, S, d) ==
    IF d = 0 THEN {0, Cardinality(MatchedKeys(r, S))}
             ELSE {Cardinality(MatchedKeys(r, S))}

\* UPDATE checkpoint_statistics SET time_played = time_played + d WHERE ...
UpdateWrites(r, S, d) == [k \in MatchedKeys(r, S) |-> View[k] + d]

\* SELECT cp_id, time_played ... WHERE run_id = r AND cp_id IN (S)
SelectRows(r, S) == [cp \in {c \in S : <<r, c>> \in DOMAIN stats} |-> View[<<r, cp>>]]

Committed_m ==
    [k \in DOMAIN stats |-> IF k \in DOMAIN txWrites THEN txWrites[k] ELSE batchPre[k]]

\* connection.commit(): the transaction's writes become the committed rows
Committed == View

VerifyOk_m(reread, snapshot, d) == TRUE

\* post-update verification loop of fix_cheated_run
VerifyOk(reread, snapshot, d) ==
    \A cp \in DOMAIN reread : reread[cp] = snapshot[cp] + d

\* self.check_connection()
check_connection == connected

FailFast_m(S) == S = {}

\* the two fail-fast preconditions of fix_cheated_run
FailFast(S) == S = {} \/ ~check_connection

ZeroRows_m(n) == FALSE

\* if rows_affected == 0
ZeroRows(n) == n = 0

\* ------------------------------------------------------- fix_cheated_run
FixSteps == {"fix_start", "fix_snapshot", "fix_update", "fix_verify", "fix_commit"}

\* connection.rollback() followed by "return False"
RollbackAndFail(call) ==
    /\ txOpen' = 0
    /\ txWrites' = Empty
    /\ result' = FALSE
    /\ calls' = calls \cup {call, "rollback"}
    /\ pc' = "fix_ret"

\* entry of fix_cheated_run: the two fail-fast preconditions
FixEnter(r, S, d) ==
    /\ run_id' = r
    /\ following_cps' = S
    /\ adjustment_ticks' = d
    /\ current_times' = Empty
    /\ updated_rows' = Empty
    /\ rows_affected' = 0
    /\ calls' = {}
    /\ pre' = stats
    /\ IF FailFast(S)
          THEN result' = FALSE /\ pc' = "fix_ret"
          ELSE result' = FALSE /\ pc' = "fix_start"
    /\ UNCHANGED <<stats, txOpen, txWrites, connected>>

\* the adjustments of the direct calls
Adjustments == {1, 2}

\* a direct call fix_cheated_run(r, to_cp_id, mapid, d, S)
FixCall ==
    /\ pc = "idle"
    /\ \E r \in Runs, S \in SUBSET CPs, d \in Adjustments : FixEnter(r, S, d)
    /\ UNCHANGED <<nExt, dbVars, logVars, fmtVars, mainVars, bfsVars, batchVars, ghostVars, tripVars>>

\* self.connection.start_transaction(isolation_level='READ COMMITTED')
FixStartTx ==
    /\ pc = "fix_start"
    /\ txOpen' = txOpen + 1
    /\ calls' = calls \cup {"start_transaction"}
    /\ pc' = "fix_snapshot"
    /\ UNCHANGED <<stats, txWrites, connected, run_id, following_cps, adjustment_ticks,
                   current_times, rows_affected, updated_rows, result, pre, nExt, dbVars, logVars, fmtVars, mainVars, bfsVars, batchVars, ghostVars, tripVars>>

\* current_times = self.get_checkpoint_times_for_run(run_id); empty -> rollback
FixSnapshot ==
    /\ pc = "fix_snapshot"
    /\ current_times' = get_checkpoint_times_for_run(run_id)
    /\ IF DOMAIN current_times' = {}
          THEN RollbackAndFail("select")
          ELSE /\ calls' = calls \cup {"select"}
               /\ pc' = "fix_update"
               /\ UNCHANGED <<txOpen, txWrites, result>>
    /\ UNCHANGED <<stats, connected, run_id, following_cps, adjustment_ticks,
                   rows_affected, updated_rows, pre, nExt, dbVars, logVars, fmtVars, mainVars, bfsVars, batchVars, ghostVars, tripVars>>

\* the UPDATE and the rows_affected == 0 check
FixUpdate ==
    /\ pc = "fix_update"
    /\ rows_affected' \in RowCounts(run_id, following_cps, adjustment_ticks)
    /\ IF ZeroRows(rows_affected')
          THEN RollbackAndFail("update")
          ELSE /\ txWrites' = UpdateWrites(run_id, following_cps, adjustment_ticks)
               /\ calls' = calls \cup {"update"}
               /\ pc' = "fix_verify"
               /\ UNCHANGED <<txOpen, result>>
    /\ UNCHANGED <<stats, connected, run_id, following_cps, adjustment_ticks,
                   current_times, updated_rows, pre, nExt, dbVars, logVars, fmtVars, mainVars, bfsVars, batchVars, ghostVars, tripVars>>

\* the re-read and the row-by-row comparison with the snapshot
FixVerify ==
    /\ pc = "fix_verify"
    /\ updated_rows' = SelectRows(run_id, following_cps)
    /\ IF VerifyOk(updated_rows', current_times, adjustment_ticks)
          THEN /\ calls' = calls \cup {"reselect"}
               /\ pc' = "fix_commit"
               /\ UNCHANGED <<txOpen, txWrites, result>>
          ELSE RollbackAndFail("reselect")
    /\ UNCHANGED <<stats, connected, run_id, following_cps, adjustment_ticks,
                   current_times, rows_affected, pre, nExt, dbVars, logVars, fmtVars, mainVars, bfsVars, batchVars, ghostVars, tripVars>>

\* self.connection.commit(); return True
FixCommit ==
    /\ pc = "fix_commit"
    /\ stats' = Committed
    /\ txOpen' = 0
    /\ txWrites' = Empty
    /\ result' = TRUE
    /\ calls' = calls \cup {"commit"}
    /\ pc' = "fix_ret"
    /\ orig' = [k \in DOMAIN orig |-> IF k[1] = run_id THEN pre[k] ELSE orig[k]]
    /\ applied' = applied \cup {run_id}
    /\ UNCHANGED <<connected, run_id, following_cps, adjustment_ticks, current_times,
                   rows_affected, updated_rows, pre, nExt, dbVars, logVars, fmtVars, mainVars, bfsVars, batchVars, ghostVars>>

FixStoreError_m ==
    /\ pc \in FixSteps
    /\ result' = FALSE
    /\ calls' = calls \cup {pc}
    /\ pc' = "fix_ret"
    /\ UNCHANGED <<stats, txOpen, txWrites, connected, run_id, following_cps,
                   adjustment_ticks, current_times, rows_affected, updated_rows,
                   pre, nExt, dbVars, logVars, fmtVars, mainVars, bfsVars, batchVars, ghostVars, tripVars>>

\* except Error: a store call of the try block raises; rollback, return False
FixStoreError ==
    /\ pc \in FixSteps
    /\ RollbackAndFail(pc)
    /\ UNCHANGED <<stats, connected, run_id, following_cps, adjustment_ticks, current_times,
                   rows_affected, updated_rows, pre, nExt, dbVars, logVars, fmtVars, mainVars, bfsVars, batchVars, ghostVars, tripVars>>

\* return to the caller
FixReturn ==
    /\ pc = "fix_ret"
    /\ op = "none"
    /\ pc' = "done"
    /\ run_id' = 1
    /\ following_cps' = {}
    /\ adjustment_ticks' = 0
    /\ current_times' = Empty
    /\ rows_affected' = 0
    /\ updated_rows' = Empty
    /\ calls' = {}
    /\ pre' = stats
    /\ UNCHANGED <<stats, txOpen, txWrites, connected, result, nExt,
                   dbVars, logVars, fmtVars, mainVars, bfsVars, batchVars, ghostVars, tripVars>>

\* ------------------------------------------------- the checkpoint graph
\* a set of checkpoint ids as the list of rows of a result set (ascending)
RECURSIVE SetToSeq(_)
SetToSeq(S) ==
    IF S = {} THEN <<>>
    ELSE LET m == CHOOSE x \in S : \A y \in S : x <= y
         IN <<m>> \o SetToSeq(S \ {m})

SeqToSet(q) == {q[i] : i \in 1..Len(q)}

\* SELECT child_cp_id FROM checkpoint_connections WHERE cp_id = cp AND mapid = m
Children(cp, m) == SetToSeq({e[2] : e \in {c \in connections : c[1] = cp /\ c[3] = m}})

\* the children of a fetched list that are not visited
Unvisited_m(children, done) ==
    LET stop == {i \in 1..Len(children) : children[i] \in done}
        last == IF stop = {} THEN Len(children)
                ELSE (CHOOSE i \in stop : \A j \in stop : i <= j) - 1
    IN SubSeq(children, 1, last)

Unvisited(children, done) ==
    LET keep(c) == c \notin done IN SelectSeq(children, keep)

\* the while loop of get_following_checkpoints
RECURSIVE FollowingLoop(_, _, _, _)
FollowingLoop(queue, done, found, m) ==
    IF queue = <<>> THEN found
    ELSE LET current_cp == Head(queue)
             rest == Tail(queue)
         IN IF current_cp \in done
               THEN FollowingLoop(rest, done, found, m)
               ELSE LET seen == done \cup {current_cp}
                        fresh == Unvisited(Children(current_cp, m), seen)
                    IN FollowingLoop(rest \o fresh, seen,
                                     found \cup SeqToSet(fresh), m)

get_following_checkpoints_m(cp, m) == {cp}

\* get_following_checkpoints(to_cp_id, mapid)
get_following_checkpoints(cp, m) == FollowingLoop(<<cp>>, {}, {cp}, m)

\* the while loop of validate_checkpoints
RECURSIVE ReachableLoop(_, _, _, _)
ReachableLoop(queue, done, target, m) ==
    IF queue = <<>> THEN FALSE
    ELSE LET current == Head(queue)
             rest == Tail(queue)
         IN IF current \in done
               THEN ReachableLoop(rest, done, target, m)
               ELSE IF current = target
                       THEN TRUE
                       ELSE LET seen == done \cup {current}
                            IN ReachableLoop(rest \o Unvisited(Children(current, m), seen),
                                             seen, target, m)

\* ----------------------------------------------------------- validation
\* reference times are counted in hundredths of a second
RefUnit == 100
TicksPerSecond == 20
\* one tick in reference-time units
TickUnits == RefUnit \div TicksPerSecond
MinRefTime == 5
MaxRefTime == 3600 * RefUnit

\* validate_input_parameters: TRUE iff no ValidationError is raised
validate_input_parameters_m(f, t, ref) ==
    /\ ~(f <= 0)
    /\ ~(t <= 0)
    /\ ~(f = t)
    /\ ~(ref < MinRefTime)
    /\ ~(ref >= MaxRefTime)
validate_input_parameters(f, t, ref) ==
    /\ ~(f <= 0)
    /\ ~(t <= 0)
    /\ ~(f = t)
    /\ ~(ref <= MinRefTime)
    /\ ~(ref > MaxRefTime)

\* validate_checkpoints: the checks that raise ValidationError
CheckpointsExist(f, t) == Cardinality({f, t} \cap DOMAIN checkpoints) = 2
SameMap(f, t) == checkpoints[f].mapid = checkpoints[t].mapid
\* validate_checkpoints: the ValidationError it raises and the identifiers the
\* message names; "missing" lists an identifier that is not among the found ones
NoError == [kind |-> "none", ids |-> {}]
Missing_m(f, t) == {cp \in {f} : cp \notin DOMAIN checkpoints}
Missing(f, t) == {cp \in {f, t} : cp \notin DOMAIN checkpoints}
CheckpointError(f, t) ==
    IF ~CheckpointsExist(f, t)
       THEN [kind |-> "not found", ids |-> Missing(f, t)]
       ELSE IF ~SameMap(f, t)
               THEN [kind |-> "different maps", ids |-> {f, t}]
               ELSE NoError
\* validate_checkpoints: the reachable flag it returns
is_reachable(f, t) == ReachableLoop(<<f>>, {}, t, checkpoints[f].mapid)

\* ------------------------------------------------------------- detector
\* rows selected by the query of find_cheated_runs; ref is in reference-time
\* units, so ref_time_ticks = ref / TickUnits
SegmentRows_m(f, t, ref) ==
    {r \in Runs :
        /\ <<r, f>> \in DOMAIN stats
        /\ <<r, t>> \in DOMAIN stats
        /\ stats[<<r, t>>] > stats[<<r, f>>]
        /\ (stats[<<r, t>>] - stats[<<r, f>>]) * TickUnits < ref}

SegmentRows(f, t, ref) ==
    {r \in Runs :
        /\ <<r, f>> \in DOMAIN stats
        /\ <<r, t>> \in DOMAIN stats
        /\ stats[<<r, t>>] > stats[<<r, f>>]
        /\ (stats[<<r, t>>] - stats[<<r, f>>]) * TickUnits < ref
        /\ player_runs[r].finished_map}

\* records of run r at an isend checkpoint of map m
FinalRows(r, m) ==
    {cp \in DOMAIN checkpoints :
        /\ checkpoints[cp].mapid = m
        /\ checkpoints[cp].isend
        /\ <<r, cp>> \in DOMAIN stats}

\* get_final_checkpoint_time: ORDER BY time_played DESC LIMIT 1
get_final_checkpoint_time(r, m) ==
    LET cp == CHOOSE c \in FinalRows(r, m) :
                  \A d \in FinalRows(r, m) : stats[<<r, d>>] <= stats[<<r, c>>]
    IN stats[<<r, cp>>]

\* adjustment_ticks = int(ref_time_ticks - time_diff_ticks)
AdjustmentTicks(ref, diff) == (ref - diff * TickUnits) \div TickUnits

\* the dict appended to cheated_runs for a selected row
CheatedRun(r, f, t, ref) ==
    [run_id |-> r,
     mapid |-> player_runs[r].mapid,
     fps |-> player_runs[r].fps,
     end_cp_time |-> stats[<<r, t>>],
     old_time_played |-> get_final_checkpoint_time(r, player_runs[r].mapid),
     adjustment_ticks |-> AdjustmentTicks(ref, stats[<<r, t>>] - stats[<<r, f>>])]

\* the runs kept by the loop of find_cheated_runs
Candidates(f, t, ref) ==
    {CheatedRun(r, f, t, ref) :
        r \in {q \in SegmentRows(f, t, ref) : FinalRows(q, player_runs[q].mapid) # {}}}

\* the runs the loop skips with a warning: get_final_checkpoint_time raised
SkippedRuns_m(f, t, ref) == {}
SkippedRuns(f, t, ref) ==
    {q \in SegmentRows(f, t, ref) : FinalRows(q, player_runs[q].mapid) = {}}

SortKeyLeq_m(a, b) == a.old_time_played <= b.old_time_played

\* key of cheated_runs.sort
SortKeyLeq(a, b) ==
    \/ a.fps < b.fps
    \/ a.fps = b.fps /\ a.old_time_played <= b.old_time_played

\* the lists cheated_runs.sort can produce from the fetched rows
SortedLists(C) ==
    {q \in [1..Cardinality(C) -> C] :
        /\ \A i, j \in DOMAIN q : i # j => q[i] # q[j]
        /\ \A i, j \in DOMAIN q : i < j => SortKeyLeq(q[i], q[j])}

\* ----------------------------------------------------- fix_cheated_runs
fixVars == <<run_id, following_cps, adjustment_ticks, current_times, rows_affected,
             updated_rows, result, calls, pre>>
storeVars == <<stats, txOpen, txWrites, connected>>

RefTimes == {5, 10, 12, 20}

\* main: the parameters are read and fix_cheated_runs is called with
\* dry_run=True
MainDryRun ==
    /\ pc = "idle"
    /\ op' = "batch"
    /\ \E f \in 0..MaxCp, t \in 0..MaxCp, ref \in RefTimes :
          /\ from_cp_id' = f
          /\ to_cp_id' = t
          /\ ref_time' = ref
    /\ dry_run' = TRUE
    /\ mapid' = 0
    /\ cheated_runs' = <<>>
    /\ rows' = <<>>
    /\ idx' = 0
    /\ csv_data' = <<>>
    /\ reverted' = 0
    /\ status' = 0
    /\ attempted' = {}
    /\ outcome' = Empty
    /\ batchPre' = stats
    /\ pc' = "batch_params"
    /\ accessed' = {}
    /\ validated' = {}
    /\ error' = NoError
    /\ UNCHANGED <<storeVars, fixVars, nExt, dbVars, warnings, fmtVars, mainVars, bfsVars, csv_fixed, tripVars>>

\* "return 1" of fix_cheated_runs
BatchFail ==
    /\ status' = 1
    /\ pc' = "batch_ret"

\* safety check: validate_input_parameters
BatchValidateParams_m ==
    /\ pc = "batch_params"
    /\ pc' = "batch_checkpoints"
    /\ status' = status
    /\ validated' = validated \cup {<<"parameters", from_cp_id, to_cp_id>>}
    /\ UNCHANGED <<storeVars, fixVars, nExt, dbVars, warnings, fmtVars, mainVars, accessed, error, bfsVars, op, from_cp_id,
                   to_cp_id, ref_time, dry_run, mapid, cheated_runs, rows, idx, csv_data,
                   csv_fixed, reverted, ghostVars, tripVars>>

\* safety check: validate_input_parameters
BatchValidateParams ==
    /\ pc = "batch_params"
    /\ IF validate_input_parameters(from_cp_id, to_cp_id, ref_time)
          THEN pc' = "batch_checkpoints" /\ status' = status
          ELSE BatchFail
    /\ validated' = IF validate_input_parameters(from_cp_id, to_cp_id, ref_time)
                       THEN validated \cup {<<"parameters", from_cp_id, to_cp_id>>}
                       ELSE validated
    /\ UNCHANGED <<storeVars, fixVars, nExt, dbVars, warnings, fmtVars, mainVars, accessed, error, bfsVars, op, from_cp_id, to_cp_id,
                   ref_time, dry_run, mapid, cheated_runs, rows, idx, csv_data, csv_fixed,
                   reverted, ghostVars, tripVars>>

\* safety check: validate_checkpoints
BatchValidateCheckpoints_m ==
    /\ pc = "batch_checkpoints"
    /\ IF /\ CheckpointsExist(from_cp_id, to_cp_id) /\ SameMap(from_cp_id, to_cp_id)
          /\ is_reachable(from_cp_id, to_cp_id)
          THEN /\ mapid' = checkpoints[from_cp_id].mapid
               /\ pc' = IF dry_run THEN "batch_find" ELSE "batch_dbcheck"
               /\ status' = status
          ELSE /\ mapid' = mapid
               /\ BatchFail
    /\ accessed' = accessed \cup {"validate_checkpoints"}
    /\ validated' = IF CheckpointsExist(from_cp_id, to_cp_id) /\ SameMap(from_cp_id, to_cp_id)
                       THEN validated \cup {<<"checkpoints", from_cp_id, to_cp_id>>}
                       ELSE validated
    /\ error' = CheckpointError(from_cp_id, to_cp_id)
    /\ reachable' = IF CheckpointsExist(from_cp_id, to_cp_id) /\ SameMap(from_cp_id, to_cp_id)
                       THEN is_reachable(from_cp_id, to_cp_id)
                       ELSE FALSE
    /\ UNCHANGED <<storeVars, fixVars, nExt, dbVars, warnings, fmtVars, mainVars, to_visit, visited, following,
                   raised, expanded, shuffled, op, from_cp_id, to_cp_id,
                   ref_time, dry_run, cheated_runs, rows, idx, csv_data, csv_fixed,
                   reverted, ghostVars, tripVars>>

BatchValidateCheckpoints ==
    /\ pc = "batch_checkpoints"
    /\ IF CheckpointsExist(from_cp_id, to_cp_id) /\ SameMap(from_cp_id, to_cp_id)
          THEN /\ mapid' = checkpoints[from_cp_id].mapid
               /\ pc' = IF dry_run THEN "batch_find" ELSE "batch_dbcheck"
               /\ status' = status
          ELSE /\ mapid' = mapid
               /\ BatchFail
    /\ accessed' = accessed \cup {"validate_checkpoints"}
    /\ validated' = IF CheckpointsExist(from_cp_id, to_cp_id) /\ SameMap(from_cp_id, to_cp_id)
                       THEN validated \cup {<<"checkpoints", from_cp_id, to_cp_id>>}
                       ELSE validated
    /\ error' = CheckpointError(from_cp_id, to_cp_id)
    /\ reachable' = IF CheckpointsExist(from_cp_id, to_cp_id) /\ SameMap(from_cp_id, to_cp_id)
                       THEN is_reachable(from_cp_id, to_cp_id)
                       ELSE FALSE
    /\ UNCHANGED <<storeVars, fixVars, nExt, dbVars, warnings, fmtVars, mainVars, to_visit, visited, following,
                   raised, expanded, shuffled, op, from_cp_id, to_cp_id,
                   ref_time, dry_run, cheated_runs, rows, idx, csv_data, csv_fixed,
                   reverted, ghostVars, tripVars>>

\* safety check of a live batch: check_connection and check_update_privileges
BatchCheckDb ==
    /\ pc = "batch_dbcheck"
    /\ \E privileges \in BOOLEAN :
          IF check_connection /\ privileges
             THEN pc' = "batch_find" /\ status' = status
             ELSE BatchFail
    /\ accessed' = accessed \cup {"check_connection"}
    /\ UNCHANGED <<storeVars, fixVars, nExt, dbVars, warnings, fmtVars, mainVars, validated, error, bfsVars, op, from_cp_id, to_cp_id,
                   ref_time, dry_run, mapid, cheated_runs, rows, idx, csv_data, csv_fixed,
                   reverted, ghostVars, tripVars>>

\* cheated_runs = self.find_cheated_runs(...); "No cheated runs found" -> return 1
BatchFind ==
    /\ pc = "batch_find"
    /\ \E q \in SortedLists(Candidates(from_cp_id, to_cp_id, ref_time)) :
          /\ cheated_runs' = q
          /\ warnings' = SkippedRuns(from_cp_id, to_cp_id, ref_time)
          /\ IF q = <<>>
                THEN BatchFail /\ idx' = idx
                ELSE pc' = "batch_loop" /\ idx' = 1 /\ status' = status
    /\ accessed' = accessed \cup {"find_cheated_runs"}
    /\ validated' = validated
    /\ error' = error
    /\ UNCHANGED <<fmtVars, mainVars, storeVars, fixVars, nExt, dbVars, bfsVars, op, from_cp_id, to_cp_id,
                   ref_time, dry_run, mapid, rows, csv_data, csv_fixed,
                   reverted, ghostVars, tripVars>>

\* the row of csv_data made of a run
CsvRow(run) ==
    [run_id |-> run.run_id,
     mapid |-> run.mapid,
     from_cp_id |-> from_cp_id,
     to_cp_id |-> to_cp_id,
     old_time_played |-> run.old_time_played,
     new_time_played |-> run.old_time_played + run.adjustment_ticks]

\* one iteration of the loop over cheated_runs, up to the call of
\* fix_cheated_run (live) or to its end (dry run)
BatchIter_m ==
    /\ pc = "batch_loop"
    /\ idx <= Len(cheated_runs)
    /\ LET run == cheated_runs[idx]
           cps == get_following_checkpoints(to_cp_id, run.mapid)
       IN /\ FixEnter(run.run_id, cps, run.adjustment_ticks)
          /\ attempted' = attempted \cup {run.run_id}
          /\ UNCHANGED <<csv_data, idx>>
    /\ accessed' = accessed \cup {"get_following_checkpoints"}
    /\ UNCHANGED <<nExt, dbVars, warnings, fmtVars, mainVars, validated, error, bfsVars, op, from_cp_id, to_cp_id, ref_time, dry_run, mapid,
                   cheated_runs, rows, csv_fixed, reverted, status, outcome, batchPre, tripVars>>

BatchIter ==
    /\ pc = "batch_loop"
    /\ idx <= Len(cheated_runs)
    /\ LET run == cheated_runs[idx]
           cps == get_following_checkpoints(to_cp_id, run.mapid)
       IN IF dry_run
             THEN /\ csv_data' = Append(csv_data, CsvRow(run))
                  /\ idx' = idx + 1
                  /\ pc' = "batch_loop"
                  /\ UNCHANGED <<storeVars, fixVars, attempted>>
             ELSE /\ FixEnter(run.run_id, cps, run.adjustment_ticks)
                  /\ attempted' = attempted \cup {run.run_id}
                  /\ UNCHANGED <<csv_data, idx>>
    /\ accessed' = accessed \cup {"get_following_checkpoints"}
    /\ UNCHANGED <<nExt, dbVars, warnings, fmtVars, mainVars, validated, error, bfsVars, op, from_cp_id, to_cp_id, ref_time, dry_run, mapid,
                   cheated_runs, rows, csv_fixed, reverted, status, outcome, batchPre, tripVars>>

BatchAfterFix_m ==
    /\ pc = "fix_ret"
    /\ op = "batch"
    /\ outcome' = [r \in DOMAIN outcome \cup {run_id} |->
                      IF r = run_id THEN result ELSE outcome[r]]
    /\ IF result
          THEN /\ csv_data' = Append(csv_data, CsvRow(cheated_runs[idx]))
               /\ idx' = idx + 1
          ELSE /\ csv_data' = csv_data
               /\ idx' = Len(cheated_runs) + 1
    /\ pc' = "batch_loop"
    /\ UNCHANGED <<storeVars, fixVars, nExt, dbVars, logVars, fmtVars, mainVars, bfsVars, op, from_cp_id, to_cp_id,
                   ref_time, dry_run, mapid, cheated_runs, rows, csv_fixed, reverted, status,
                   attempted, batchPre, tripVars>>

\* fix_cheated_run has returned to the loop: "if success ... else ..."
BatchAfterFix ==
    /\ pc = "fix_ret"
    /\ op = "batch"
    /\ outcome' = [r \in DOMAIN outcome \cup {run_id} |->
                      IF r = run_id THEN result ELSE outcome[r]]
    /\ csv_data' = IF result THEN Append(csv_data, CsvRow(cheated_runs[idx])) ELSE csv_data
    /\ idx' = idx + 1
    /\ pc' = "batch_loop"
    /\ UNCHANGED <<storeVars, fixVars, nExt, dbVars, logVars, fmtVars, mainVars, bfsVars, op, from_cp_id, to_cp_id,
                   ref_time, dry_run, mapid, cheated_runs, rows, csv_fixed, reverted, status,
                   attempted, batchPre, tripVars>>

BatchExport_m ==
    /\ pc = "batch_loop"
    /\ idx > Len(cheated_runs)
    /\ csv_fixed' = IF ~dry_run
                       THEN [i \in 1..Len(cheated_runs) |-> CsvRow(cheated_runs[i])]
                       ELSE csv_fixed
    /\ status' = 0
    /\ pc' = "batch_ret"
    /\ UNCHANGED <<storeVars, fixVars, nExt, dbVars, logVars, fmtVars, mainVars, bfsVars, op, from_cp_id, to_cp_id,
                   ref_time, dry_run, mapid, cheated_runs, rows, idx, csv_data,
                   reverted, ghostVars, tripVars>>

\* after the loop: the audit file of a live batch is written when csv_data is
\* not empty; fix_cheated_runs returns None
BatchExport ==
    /\ pc = "batch_loop"
    /\ idx > Len(cheated_runs)
    /\ csv_fixed' = IF csv_data # <<>> /\ ~dry_run THEN csv_data ELSE csv_fixed
    /\ status' = 0
    /\ pc' = "batch_ret"
    /\ UNCHANGED <<storeVars, fixVars, nExt, dbVars, logVars, fmtVars, mainVars, bfsVars, op, from_cp_id, to_cp_id,
                   ref_time, dry_run, mapid, cheated_runs, rows, idx, csv_data,
                   reverted, ghostVars, tripVars>>

\* the locals of an operation that has returned
ResetLocals ==
    /\ run_id' = 1
    /\ following_cps' = {}
    /\ adjustment_ticks' = 0
    /\ current_times' = Empty
    /\ rows_affected' = 0
    /\ updated_rows' = Empty
    /\ calls' = {}
    /\ result' = FALSE
    /\ pre' = stats
    /\ op' = "none"
    /\ from_cp_id' = 0
    /\ to_cp_id' = 0
    /\ ref_time' = 0
    /\ dry_run' = TRUE
    /\ mapid' = 0
    /\ cheated_runs' = <<>>
    /\ rows' = <<>>
    /\ idx' = 0
    /\ csv_data' = <<>>
    /\ reverted' = 0
    /\ attempted' = {}
    /\ outcome' = Empty
    /\ batchPre' = stats

\* main after the dry run: an error status ends the command; otherwise the
\* user is asked and on 'yes' fix_cheated_runs is called with dry_run=False
MainAfterDryRun_m ==
    /\ pc = "batch_ret"
    /\ dry_run
    /\ \E reply \in {"yes", "no"} :
          /\ response' = IF status = 0 THEN reply ELSE response
          /\ IF reply = "yes"
                THEN /\ dry_run' = FALSE
                     /\ mapid' = 0
                     /\ cheated_runs' = <<>>
                     /\ idx' = 0
                     /\ csv_data' = <<>>
                     /\ batchPre' = stats
                     /\ pc' = "batch_params"
                     /\ accessed' = {}
                     /\ validated' = {}
                     /\ error' = NoError
                     /\ UNCHANGED <<fixVars, op, from_cp_id, to_cp_id, ref_time, rows,
                                    reverted, attempted, outcome>>
                ELSE /\ pc' = "after_main"
                     /\ ResetLocals
                     /\ UNCHANGED <<accessed, validated, error>>
    /\ UNCHANGED <<storeVars, nExt, dbVars, warnings, fmtVars, bfsVars, csv_fixed, status, tripVars>>

MainAfterDryRun ==
    /\ pc = "batch_ret"
    /\ dry_run
    /\ \E reply \in {"yes", "no"} :
          /\ response' = IF status = 0 THEN reply ELSE response
          /\ IF status = 0 /\ reply = "yes"
                THEN /\ dry_run' = FALSE
                     /\ mapid' = 0
                     /\ cheated_runs' = <<>>
                     /\ idx' = 0
                     /\ csv_data' = <<>>
                     /\ batchPre' = stats
                     /\ pc' = "batch_params"
                     /\ accessed' = {}
                     /\ validated' = {}
                     /\ error' = NoError
                     /\ UNCHANGED <<fixVars, op, from_cp_id, to_cp_id, ref_time, rows,
                                    reverted, attempted, outcome>>
                ELSE /\ pc' = "after_main"
                     /\ ResetLocals
                     /\ UNCHANGED <<accessed, validated, error>>
    /\ UNCHANGED <<storeVars, nExt, dbVars, warnings, fmtVars, bfsVars, csv_fixed, status, tripVars>>

\* main after the live batch
MainAfterLive ==
    /\ pc = "batch_ret"
    /\ ~dry_run
    /\ pc' = "after_main"
    /\ ResetLocals
    /\ UNCHANGED <<storeVars, nExt, dbVars, logVars, fmtVars, mainVars, bfsVars, csv_fixed, status, tripVars>>

\* ------------------------------------------------------ revert_from_csv
RevertSteps == {"rev_start", "rev_update", "rev_commit"}

Adjustment_m(row) == row.new_time_played

\* adjustment = new_time - old_time
Adjustment(row) == row.new_time_played - row.old_time_played

RevertWrites_m(r, S, d) == [k \in MatchedKeys(r, S) |-> View[k] + d]

\* UPDATE checkpoint_statistics SET time_played = time_played - d WHERE ...
RevertWrites(r, S, d) == [k \in MatchedKeys(r, S) |-> View[k] - d]

\* revert_from_csv(filename) is called on the audit file of the last live batch
RevertCall ==
    /\ pc \in {"idle", "after_main"}
    /\ op' = "revert"
    /\ rows' = csv_fixed
    /\ reverted' = 0
    /\ IF csv_fixed = <<>>
          THEN status' = 1 /\ pc' = "rev_ret" /\ idx' = 0
          ELSE status' = 0 /\ pc' = "rev_row" /\ idx' = 1
    /\ accessed' = {}
    /\ validated' = {}
    /\ error' = NoError
    /\ UNCHANGED <<storeVars, fixVars, nExt, dbVars, warnings, fmtVars, mainVars, bfsVars, from_cp_id, to_cp_id, ref_time, dry_run,
                   mapid, cheated_runs, csv_data, csv_fixed, ghostVars, tripVars>>

RevertRow_m ==
    /\ pc = "rev_row"
    /\ idx <= Len(rows)
    /\ run_id' = rows[idx].run_id
    /\ adjustment_ticks' = Adjustment(rows[idx])
    /\ following_cps' = {cp \in CPs : /\ <<rows[idx].run_id, cp>> \in DOMAIN stats
                                     /\ stats[<<rows[idx].run_id, cp>>] #
                                           orig[<<rows[idx].run_id, cp>>]}
    /\ calls' = {}
    /\ pre' = stats
    /\ rows_affected' = 0
    /\ IF following_cps' = {}
          THEN pc' = "rev_row" /\ idx' = idx + 1
          ELSE pc' = "rev_start" /\ idx' = idx
    /\ accessed' = accessed \cup {"get_following_checkpoints"}
    /\ UNCHANGED <<storeVars, current_times, updated_rows, result, nExt, dbVars, warnings, fmtVars, mainVars, validated, error, bfsVars,
                   op, from_cp_id, to_cp_id, ref_time, dry_run, mapid, cheated_runs, rows,
                   csv_data, csv_fixed, reverted, status, ghostVars, tripVars>>

\* head of the loop body: the row's fields and its following checkpoints
RevertRow ==
    /\ pc = "rev_row"
    /\ idx <= Len(rows)
    /\ run_id' = rows[idx].run_id
    /\ adjustment_ticks' = Adjustment(rows[idx])
    /\ following_cps' = get_following_checkpoints(rows[idx].to_cp_id, rows[idx].mapid)
    /\ calls' = {}
    /\ pre' = stats
    /\ rows_affected' = 0
    /\ IF following_cps' = {}
          THEN pc' = "rev_row" /\ idx' = idx + 1
          ELSE pc' = "rev_start" /\ idx' = idx
    /\ accessed' = accessed \cup {"get_following_checkpoints"}
    /\ UNCHANGED <<storeVars, current_times, updated_rows, result, nExt, dbVars, warnings, fmtVars, mainVars, validated, error, bfsVars,
                   op, from_cp_id, to_cp_id, ref_time, dry_run, mapid, cheated_runs, rows,
                   csv_data, csv_fixed, reverted, status, ghostVars, tripVars>>

\* self.connection.start_transaction(isolation_level='READ COMMITTED')
RevertStartTx ==
    /\ pc = "rev_start"
    /\ txOpen' = txOpen + 1
    /\ calls' = calls \cup {"start_transaction"}
    /\ pc' = "rev_update"
    /\ UNCHANGED <<stats, txWrites, connected, run_id, following_cps, adjustment_ticks,
                   current_times, rows_affected, updated_rows, result, pre, nExt,
                   dbVars, logVars, fmtVars, mainVars, bfsVars, batchVars, ghostVars, tripVars>>

\* the UPDATE subtracting the adjustment
RevertUpdate ==
    /\ pc = "rev_update"
    /\ txWrites' = RevertWrites(run_id, following_cps, adjustment_ticks)
    /\ rows_affected' \in RowCounts(run_id, following_cps, adjustment_ticks)
    /\ calls' = calls \cup {"update"}
    /\ pc' = "rev_commit"
    /\ UNCHANGED <<stats, txOpen, connected, run_id, following_cps, adjustment_ticks,
                   current_times, updated_rows, result, pre, nExt,
                   dbVars, logVars, fmtVars, mainVars, bfsVars, batchVars, ghostVars, tripVars>>

\* self.connection.commit(); reverted += 1
RevertCommit ==
    /\ pc = "rev_commit"
    /\ stats' = Committed
    /\ txOpen' = 0
    /\ txWrites' = Empty
    /\ calls' = calls \cup {"commit"}
    /\ reverted' = reverted + 1
    /\ idx' = idx + 1
    /\ pc' = "rev_row"
    /\ applied' = applied \ {run_id}
    /\ UNCHANGED <<connected, run_id, following_cps, adjustment_ticks, current_times,
                   rows_affected, updated_rows, result, pre, nExt, dbVars, logVars, fmtVars, mainVars, bfsVars, op,
                   from_cp_id, to_cp_id, ref_time, dry_run, mapid, cheated_runs, rows,
                   csv_data, csv_fixed, status, ghostVars, orig>>

RevertStoreError_m ==
    /\ pc \in RevertSteps
    /\ calls' = calls \cup {pc}
    /\ idx' = idx + 1
    /\ pc' = "rev_row"
    /\ UNCHANGED <<storeVars, run_id, following_cps, adjustment_ticks, current_times,
                   rows_affected, updated_rows, result, pre, nExt, dbVars, logVars, fmtVars, mainVars, bfsVars, op,
                   from_cp_id, to_cp_id, ref_time, dry_run, mapid, cheated_runs, rows,
                   csv_data, csv_fixed, reverted, status, ghostVars, tripVars>>

\* except Error: a store call of the row's try block raises; rollback, next row
RevertStoreError ==
    /\ pc \in RevertSteps
    /\ txOpen' = 0
    /\ txWrites' = Empty
    /\ calls' = calls \cup {pc, "rollback"}
    /\ idx' = idx + 1
    /\ pc' = "rev_row"
    /\ UNCHANGED <<stats, connected, run_id, following_cps, adjustment_ticks, current_times,
                   rows_affected, updated_rows, result, pre, nExt, dbVars, logVars, fmtVars, mainVars, bfsVars, op,
                   from_cp_id, to_cp_id, ref_time, dry_run, mapid, cheated_runs, rows,
                   csv_data, csv_fixed, reverted, status, ghostVars, tripVars>>

RevertEnd_m ==
    /\ pc = "rev_row"
    /\ idx > Len(rows) \/ "rollback" \in calls
    /\ status' = 0
    /\ pc' = "rev_ret"
    /\ UNCHANGED <<storeVars, fixVars, nExt, dbVars, logVars, fmtVars, mainVars, bfsVars, op, from_cp_id, to_cp_id, ref_time,
                   dry_run, mapid, cheated_runs, rows, idx, csv_data, csv_fixed, reverted,
                   ghostVars, tripVars>>

\* after the loop: "Successfully reverted n/m", return True
RevertEnd ==
    /\ pc = "rev_row"
    /\ idx > Len(rows)
    /\ status' = 0
    /\ pc' = "rev_ret"
    /\ UNCHANGED <<storeVars, fixVars, nExt, dbVars, logVars, fmtVars, mainVars, bfsVars, op, from_cp_id, to_cp_id, ref_time,
                   dry_run, mapid, cheated_runs, rows, idx, csv_data, csv_fixed, reverted,
                   ghostVars, tripVars>>

\* revert_from_csv returns to main
RevertReturn ==
    /\ pc = "rev_ret"
    /\ pc' = "done"
    /\ ResetLocals
    /\ UNCHANGED <<storeVars, nExt, dbVars, logVars, fmtVars, mainVars, bfsVars, csv_fixed, status, tripVars>>

\* ------------------------------------------------------ the environment
\* another session commits a change of time_played of a record of the run in
\* repair that the open transaction has not locked, after fix_cheated_run has
\* read its snapshot (a write before the snapshot is a different table at
\* call entry)
ExternalWrite ==
    /\ pc \in {"fix_update", "fix_verify", "fix_commit"}
    /\ txOpen > 0
    /\ nExt < MaxExt
    /\ \E k \in {q \in DOMAIN stats \ DOMAIN txWrites : q[1] = run_id} :
          /\ stats' = [stats EXCEPT ![k] = @ + 1]
          /\ pre' = [pre EXCEPT ![k] = @ + 1]
          /\ batchPre' = [batchPre EXCEPT ![k] = @ + 1]
          /\ orig' = [orig EXCEPT ![k] = @ + 1]
    /\ nExt' = nExt + 1
    /\ UNCHANGED <<txOpen, txWrites, connected, pc, run_id, following_cps,
                   adjustment_ticks, current_times, rows_affected, updated_rows,
                   result, calls, dbVars, logVars, fmtVars, mainVars, bfsVars, batchVars, attempted, outcome, applied>>

\* the connection drops before the call
ConnectionLost ==
    /\ pc = "idle"
    /\ connected
    /\ connected' = FALSE
    /\ UNCHANGED <<stats, txOpen, txWrites, pc, run_id, following_cps,
                   adjustment_ticks, current_times, rows_affected, updated_rows,
                   result, calls, pre, nExt, dbVars, logVars, fmtVars, mainVars, bfsVars, batchVars, ghostVars, tripVars>>

\* ---------------------------------------------------------------- spec
\* no top-level operation is running
\* no graph traversal is running
BfsIdle ==
    /\ to_visit = <<>>
    /\ visited = {}
    /\ following = {}
    /\ reachable = FALSE
    /\ raised = FALSE
    /\ expanded = [cp \in CPs |-> 0]
    /\ shuffled = FALSE

BatchIdle ==
    /\ warnings = {}
    /\ accessed = {}
    /\ validated = {}
    /\ error = NoError
    /\ ticks = 0
    /\ formatted = <<>>
    /\ response = ""
    /\ op = "none"
    /\ from_cp_id = 0
    /\ to_cp_id = 0
    /\ ref_time = 0
    /\ dry_run = TRUE
    /\ mapid = 0
    /\ cheated_runs = <<>>
    /\ rows = <<>>
    /\ idx = 0
    /\ csv_data = <<>>
    /\ csv_fixed = <<>>
    /\ reverted = 0
    /\ status = 0
    /\ attempted = {}
    /\ outcome = Empty

\* the initial tables: run 1 has a record at any set of checkpoints (none
\* included) and every other run at all of them, the recorded time growing
\* with the checkpoint
InitTime(r, cp) == 100 * cp + 10 * r
StoreOf(held) ==
    [k \in {q \in Keys : q[1] = 1 => q[2] \in held} |-> InitTime(k[1], k[2])]
InitStores == {StoreOf(held) : held \in SUBSET CPs}

Init ==
    /\ stats \in InitStores
    /\ txOpen = 0
    /\ txWrites = Empty
    /\ connected = TRUE
    /\ pc = "idle"
    /\ run_id = 1
    /\ following_cps = {}
    /\ adjustment_ticks = 0
    /\ current_times = Empty
    /\ rows_affected = 0
    /\ updated_rows = Empty
    /\ result = FALSE
    /\ calls = {}
    /\ pre = stats
    /\ nExt = 0
    /\ checkpoints = [cp \in CPs |-> [mapid |-> 1, isend |-> cp = MaxCp]]
    /\ connections = {}
    /\ player_runs = [r \in Runs |-> [mapid |-> 1, finished_map |-> TRUE, fps |-> 1]]
    /\ BatchIdle
    /\ BfsIdle
    /\ batchPre = stats
    /\ orig = stats
    /\ applied = {}

Next ==
    \/ FixCall
    \/ FixStartTx
    \/ FixSnapshot
    \/ FixUpdate
    \/ FixVerify
    \/ FixCommit
    \/ FixStoreError
    \/ FixReturn
    \/ ExternalWrite
    \/ ConnectionLost

Spec == Init /\ [][Next]_vars

\* ---------------------------------------------- batch and revert: SpecBatch
\* the tables of the batch: run r passes a checkpoint every PaceOf(r) ticks;
\* every run has reached all checkpoints, but for at most one run that has no
\* record at the last one
PaceOf(r) == 1 + (r % 2)
PacedStore(short) ==
    [k \in {q \in Keys : q[1] = short => q[2] < MaxCp} |-> PaceOf(k[1]) * k[2]]
BatchStores == {PacedStore(short) : short \in 0..MaxRun}

\* player_runs: every run is finished, but for at most one
BatchRuns ==
    {[r \in Runs |-> [mapid |-> 1, finished_map |-> r # unfinished, fps |-> 1]] :
        unfinished \in 0..MaxRun}

\* connection graphs on map 1: a chain, a cycle through every checkpoint, a
\* fork from checkpoint 1, and a chain whose last edge belongs to map 2
Chain == {<<c, c + 1, 1>> : c \in 1..(MaxCp - 1)}
Graphs ==
    { Chain,
      Chain \cup {<<MaxCp, 1, 1>>},
      {<<1, c, 1>> : c \in 2..MaxCp},
      (Chain \ {<<MaxCp - 1, MaxCp, 1>>}) \cup {<<MaxCp - 1, MaxCp, 2>>} }

InitBatch ==
    /\ stats \in BatchStores
    /\ txOpen = 0
    /\ txWrites = Empty
    /\ connected = TRUE
    /\ pc = "idle"
    /\ run_id = 1
    /\ following_cps = {}
    /\ adjustment_ticks = 0
    /\ current_times = Empty
    /\ rows_affected = 0
    /\ updated_rows = Empty
    /\ result = FALSE
    /\ calls = {}
    /\ pre = stats
    /\ nExt = 0
    /\ checkpoints = [cp \in CPs |-> [mapid |-> 1, isend |-> cp = MaxCp]]
    /\ connections \in Graphs
    /\ player_runs \in BatchRuns
    /\ BatchIdle
    /\ BfsIdle
    /\ batchPre = stats
    /\ orig = stats
    /\ applied = {}

NextBatch ==
    \/ MainDryRun
    \/ BatchValidateParams
    \/ BatchValidateCheckpoints
    \/ BatchCheckDb
    \/ BatchFind
    \/ BatchIter
    \/ FixStartTx
    \/ FixSnapshot
    \/ FixUpdate
    \/ FixVerify
    \/ FixCommit
    \/ FixStoreError
    \/ BatchAfterFix
    \/ BatchExport
    \/ MainAfterDryRun
    \/ MainAfterLive
    \/ RevertCall
    \/ RevertRow
    \/ RevertStartTx
    \/ RevertUpdate
    \/ RevertCommit
    \/ RevertStoreError
    \/ RevertEnd
    \/ RevertReturn
    \/ ExternalWrite

SpecBatch == InitBatch /\ [][NextBatch]_vars

\* ------------------------------------- the graph traversals: SpecGraph
\* the traversals of get_following_checkpoints and validate_checkpoints, one
\* step per iteration of the while loop; the store returns the rows of a
\* SELECT in any order
Maps == {1, 2}

\* the lists without repetition of the elements of S
Perms(S) ==
    {q \in [1..Cardinality(S) -> S] : \A i, j \in DOMAIN q : i # j => q[i] # q[j]}

\* child_cp_id of the rows WHERE cp_id = cp AND mapid = m
ChildSet_m(cp, m) == {e[2] : e \in {c \in connections : c[1] = cp}}
ChildSet(cp, m) == {e[2] : e \in {c \in connections : c[1] = cp /\ c[3] = m}}

\* cursor.fetchall() of that SELECT
ChildRows(cp, m) == Perms(ChildSet(cp, m))

\* the fields every traversal step leaves alone
BfsFrame ==
    UNCHANGED <<storeVars, fixVars, nExt, dbVars, op, ref_time, dry_run, cheated_runs,
                rows, idx, csv_data, csv_fixed, reverted, status, ghostVars, tripVars>>

\* get_following_checkpoints(to_cp_id, mapid): the initialisation
GfCall_m ==
    /\ pc = "idle"
    /\ \E cp \in CPs, m \in Maps :
          /\ to_cp_id' = cp
          /\ mapid' = m
          /\ following' = {}
          /\ to_visit' = <<cp>>
    /\ visited' = {}
    /\ pc' = "gf_loop"
    /\ UNCHANGED <<from_cp_id, reachable, raised, expanded, shuffled>>
    /\ BfsFrame
    /\ UNCHANGED logVars
    /\ UNCHANGED fmtVars
    /\ UNCHANGED mainVars

GfCall ==
    /\ pc = "idle"
    /\ \E cp \in CPs, m \in Maps :
          /\ to_cp_id' = cp
          /\ mapid' = m
          /\ following' = {cp}
          /\ to_visit' = <<cp>>
    /\ visited' = {}
    /\ pc' = "gf_loop"
    /\ UNCHANGED <<from_cp_id, reachable, raised, expanded, shuffled>>
    /\ BfsFrame
    /\ UNCHANGED logVars
    /\ UNCHANGED fmtVars
    /\ UNCHANGED mainVars

\* one iteration of "while to_visit" of get_following_checkpoints
GfStep_m ==
    /\ pc = "gf_loop"
    /\ to_visit # <<>>
    /\ LET current_cp == Head(to_visit)
           rest == Tail(to_visit)
       IN \E children \in ChildRows(current_cp, mapid) :
             LET fresh == Unvisited(children, visited)
             IN /\ visited' = visited
                /\ following' = following \cup SeqToSet(fresh)
                /\ to_visit' = rest \o fresh
                /\ expanded' = [expanded EXCEPT ![current_cp] = @ + 1]
                /\ shuffled' = (shuffled \/ children # SetToSeq(ChildSet(current_cp, mapid)))
    /\ UNCHANGED <<pc, from_cp_id, to_cp_id, mapid, reachable, raised>>
    /\ BfsFrame
    /\ UNCHANGED logVars
    /\ UNCHANGED fmtVars
    /\ UNCHANGED mainVars

GfStep ==
    /\ pc = "gf_loop"
    /\ to_visit # <<>>
    /\ LET current_cp == Head(to_visit)
           rest == Tail(to_visit)
       IN IF current_cp \in visited
             THEN /\ to_visit' = rest
                  /\ UNCHANGED <<visited, following, expanded, shuffled>>
             ELSE \E children \in ChildRows(current_cp, mapid) :
                     LET seen == visited \cup {current_cp}
                         fresh == Unvisited(children, seen)
                     IN /\ visited' = seen
                        /\ following' = following \cup SeqToSet(fresh)
                        /\ to_visit' = rest \o fresh
                        /\ expanded' = [expanded EXCEPT ![current_cp] = @ + 1]
                        /\ shuffled' = (shuffled \/ children # SetToSeq(ChildSet(current_cp, mapid)))
    /\ UNCHANGED <<pc, from_cp_id, to_cp_id, mapid, reachable, raised>>
    /\ BfsFrame
    /\ UNCHANGED logVars
    /\ UNCHANGED fmtVars
    /\ UNCHANGED mainVars

\* the work-list is empty: cursor.close(); return following
GfReturn ==
    /\ pc = "gf_loop"
    /\ to_visit = <<>>
    /\ pc' = "gf_ret"
    /\ UNCHANGED <<from_cp_id, to_cp_id, mapid, bfsVars>>
    /\ BfsFrame
    /\ UNCHANGED logVars
    /\ UNCHANGED fmtVars
    /\ UNCHANGED mainVars

\* validate_checkpoints(from_cp_id, to_cp_id): the existence and same-map
\* checks raise ValidationError, else the traversal is initialised
VcCall ==
    /\ pc = "idle"
    /\ \E f \in 0..MaxCp, t \in 0..MaxCp :
          /\ from_cp_id' = f
          /\ to_cp_id' = t
          /\ IF CheckpointsExist(f, t) /\ SameMap(f, t)
                THEN /\ mapid' = checkpoints[f].mapid
                     /\ to_visit' = <<f>>
                     /\ raised' = FALSE
                     /\ pc' = "vc_loop"
                ELSE /\ mapid' = mapid
                     /\ to_visit' = <<>>
                     /\ raised' = TRUE
                     /\ pc' = "vc_ret"
    /\ visited' = {}
    /\ reachable' = FALSE
    /\ UNCHANGED <<following, expanded, shuffled>>
    /\ BfsFrame
    /\ error' = CheckpointError(from_cp_id', to_cp_id')
    /\ UNCHANGED <<warnings, fmtVars, mainVars, accessed, validated>>

\* one iteration of "while to_visit" of validate_checkpoints
VcStep_m ==
    /\ pc = "vc_loop"
    /\ to_visit # <<>>
    /\ LET current == Head(to_visit)
           rest == Tail(to_visit)
       IN IF current \in visited
             THEN /\ to_visit' = rest
                  /\ UNCHANGED <<visited, reachable, expanded, shuffled, pc>>
             ELSE \E children \in ChildRows(current, mapid) :
                     LET seen == visited \cup {current}
                     IN IF to_cp_id \in SeqToSet(children)
                           THEN /\ reachable' = TRUE
                                /\ to_visit' = rest
                                /\ pc' = "vc_ret"
                                /\ UNCHANGED <<visited, expanded, shuffled>>
                           ELSE /\ visited' = seen
                                /\ to_visit' = rest
                                /\ expanded' = [expanded EXCEPT ![current] = @ + 1]
                                /\ shuffled' = (shuffled \/ children # SetToSeq(ChildSet(current, mapid)))
                                /\ UNCHANGED <<reachable, pc>>
    /\ UNCHANGED <<from_cp_id, to_cp_id, mapid, following, raised>>
    /\ BfsFrame
    /\ UNCHANGED logVars
    /\ UNCHANGED fmtVars
    /\ UNCHANGED mainVars

VcStep ==
    /\ pc = "vc_loop"
    /\ to_visit # <<>>
    /\ LET current == Head(to_visit)
           rest == Tail(to_visit)
       IN IF current \in visited
             THEN /\ to_visit' = rest
                  /\ UNCHANGED <<visited, reachable, expanded, shuffled, pc>>
             ELSE IF current = to_cp_id
                     THEN /\ reachable' = TRUE
                          /\ to_visit' = rest
                          /\ pc' = "vc_ret"
                          /\ UNCHANGED <<visited, expanded, shuffled>>
                     ELSE \E children \in ChildRows(current, mapid) :
                             LET seen == visited \cup {current}
                             IN /\ visited' = seen
                                /\ to_visit' = rest \o Unvisited(children, seen)
                                /\ expanded' = [expanded EXCEPT ![current] = @ + 1]
                                /\ shuffled' = (shuffled \/ children # SetToSeq(ChildSet(current, mapid)))
                                /\ UNCHANGED <<reachable, pc>>
    /\ UNCHANGED <<from_cp_id, to_cp_id, mapid, following, raised>>
    /\ BfsFrame
    /\ UNCHANGED logVars
    /\ UNCHANGED fmtVars
    /\ UNCHANGED mainVars

\* the work-list is empty: the warning is printed; return mapid, reachable
VcReturn ==
    /\ pc = "vc_loop"
    /\ to_visit = <<>>
    /\ pc' = "vc_ret"
    /\ UNCHANGED <<from_cp_id, to_cp_id, mapid, bfsVars>>
    /\ BfsFrame
    /\ UNCHANGED logVars
    /\ UNCHANGED fmtVars
    /\ UNCHANGED mainVars

\* the connection tables: at most MaxCp edges of map 1 between any two
\* checkpoints (self-loops and cycles included), alone or beside a chain of
\* edges of map 2
Pairs == {<<a, b, 1>> : a \in CPs, b \in CPs}
Chain2 == {<<c, c + 1, 2>> : c \in 1..(MaxCp - 1)}
Map1Tables == {F \in SUBSET Pairs : Cardinality(F) <= MaxCp}
GraphTables == {E \cup X : E \in Map1Tables, X \in {{}, Chain2}}

InitGraphOf(tables) ==
    /\ stats = PacedStore(0)
    /\ txOpen = 0
    /\ txWrites = Empty
    /\ connected = TRUE
    /\ pc = "idle"
    /\ run_id = 1
    /\ following_cps = {}
    /\ adjustment_ticks = 0
    /\ current_times = Empty
    /\ rows_affected = 0
    /\ updated_rows = Empty
    /\ result = FALSE
    /\ calls = {}
    /\ pre = stats
    /\ nExt = 0
    /\ checkpoints = [cp \in CPs |-> [mapid |-> 1, isend |-> cp = MaxCp]]
    /\ connections \in tables
    /\ player_runs = [r \in Runs |-> [mapid |-> 1, finished_map |-> TRUE, fps |-> 1]]
    /\ BatchIdle
    /\ BfsIdle
    /\ batchPre = stats
    /\ orig = stats
    /\ applied = {}

InitGraph == InitGraphOf(GraphTables)

NextGraph ==
    \/ GfCall
    \/ GfStep
    \/ GfReturn
    \/ VcCall
    \/ VcStep
    \/ VcReturn

SpecGraph == InitGraph /\ [][NextGraph]_vars

\* both loops are run to their end: nothing suspends a traversal
InitGraphFair == InitGraphOf(Map1Tables)
SpecGraphFair == InitGraphFair /\ [][NextGraph]_vars /\ WF_vars(NextGraph)

\* ------------------------------------------------ the detector: SpecDetect
\* find_cheated_runs called once on tables in which run r passes a checkpoint
\* every paces[r] ticks (0: the clock stands still), at most one run has no
\* record at the last checkpoint and at most one run is unfinished
Paces == {0, 1, 2, 100, 250}
DetectStore(paces, short) ==
    [k \in {q \in Keys : q[1] = short => q[2] < MaxCp} |-> paces[k[1]] * k[2]]
DetectStores == {DetectStore(paces, short) : paces \in [Runs -> Paces], short \in 0..MaxRun}

\* player_runs of the detector: at most one run is unfinished; the runs are
\* all recorded at rate 1 or run r at rate MaxRun + 1 - r
DetectRuns ==
    {[r \in Runs |-> [mapid |-> 1, finished_map |-> r # unfinished,
                      fps |-> IF descending THEN MaxRun + 1 - r ELSE 1]] :
        unfinished \in 0..MaxRun, descending \in BOOLEAN}

\* reference times (hundredths of a second) that validate_input_parameters
\* accepts: 2.4, 2.6, 4 and 200 ticks
DetectRefTimes == {12, 13, 20, 1000}

\* cheated_runs = find_cheated_runs(from_cp_id, to_cp_id, ref_time)
FindCall_m ==
    /\ pc = "idle"
    /\ \E f \in CPs, t \in CPs, ref \in DetectRefTimes :
          /\ from_cp_id' = f
          /\ to_cp_id' = t
          /\ ref_time' = ref
          /\ cheated_runs' \in SortedLists(Candidates(f, t, ref))
          /\ warnings' = SkippedRuns(f, t, ref)
    /\ pc' = "find_ret"
    /\ accessed' = accessed \cup {"find_cheated_runs"}
    /\ validated' = validated
    /\ error' = error
    /\ stats' = [k \in DOMAIN stats |->
                    IF \E c \in Candidates(from_cp_id', to_cp_id', ref_time') :
                          c.run_id = k[1] /\ k[2] = to_cp_id'
                       THEN stats[k] + 1 ELSE stats[k]]
    /\ UNCHANGED <<fmtVars, mainVars, txOpen, txWrites, connected, fixVars, nExt, dbVars, bfsVars, op, dry_run, mapid, rows, idx,
                   csv_data, csv_fixed, reverted, status, ghostVars, tripVars>>

FindCall ==
    /\ pc = "idle"
    /\ \E f \in CPs, t \in CPs, ref \in DetectRefTimes :
          /\ from_cp_id' = f
          /\ to_cp_id' = t
          /\ ref_time' = ref
          /\ cheated_runs' \in SortedLists(Candidates(f, t, ref))
          /\ warnings' = SkippedRuns(f, t, ref)
    /\ pc' = "find_ret"
    /\ accessed' = accessed \cup {"find_cheated_runs"}
    /\ validated' = validated
    /\ error' = error
    /\ UNCHANGED <<fmtVars, mainVars, storeVars, fixVars, nExt, dbVars, bfsVars, op, dry_run, mapid, rows, idx,
                   csv_data, csv_fixed, reverted, status, ghostVars, tripVars>>

InitDetect ==
    /\ stats \in DetectStores
    /\ txOpen = 0
    /\ txWrites = Empty
    /\ connected = TRUE
    /\ pc = "idle"
    /\ run_id = 1
    /\ following_cps = {}
    /\ adjustment_ticks = 0
    /\ current_times = Empty
    /\ rows_affected = 0
    /\ updated_rows = Empty
    /\ result = FALSE
    /\ calls = {}
    /\ pre = stats
    /\ nExt = 0
    /\ checkpoints = [cp \in CPs |-> [mapid |-> 1, isend |-> cp = MaxCp]]
    /\ connections = Chain
    /\ player_runs \in DetectRuns
    /\ BatchIdle
    /\ BfsIdle
    /\ batchPre = stats
    /\ orig = stats
    /\ applied = {}

NextDetect == FindCall

SpecDetect == InitDetect /\ [][NextDetect]_vars

\* ------------------------------------------- validate_input_parameters
\* the arguments of a call: identifiers around zero and reference times
\* around both limits, in hundredths of a second
ParamIds == (0 - 1)..MaxCp
ParamRefTimes == {0 - 5, 0, 4, 5, 6, 12, 359999, 360000, 360001}

\* validate_input_parameters(from_cp_id, to_cp_id, ref_time): returns None or
\* raises ValidationError
ParamsCall ==
    /\ pc = "idle"
    /\ raised' = ~validate_input_parameters(from_cp_id, to_cp_id, ref_time)
    /\ pc' = "params_ret"
    /\ UNCHANGED <<storeVars, fixVars, nExt, dbVars, logVars, fmtVars, mainVars, batchVars, ghostVars, tripVars,
                   to_visit, visited, following, reachable, expanded, shuffled>>

InitParams ==
    /\ stats = PacedStore(0)
    /\ txOpen = 0
    /\ txWrites = Empty
    /\ connected = TRUE
    /\ pc = "idle"
    /\ run_id = 1
    /\ following_cps = {}
    /\ adjustment_ticks = 0
    /\ current_times = Empty
    /\ rows_affected = 0
    /\ updated_rows = Empty
    /\ result = FALSE
    /\ calls = {}
    /\ pre = stats
    /\ nExt = 0
    /\ checkpoints = [cp \in CPs |-> [mapid |-> 1, isend |-> cp = MaxCp]]
    /\ connections = Chain
    /\ player_runs = [r \in Runs |-> [mapid |-> 1, finished_map |-> TRUE, fps |-> 1]]
    /\ warnings = {}
    /\ accessed = {}
    /\ validated = {}
    /\ error = NoError
    /\ ticks = 0
    /\ formatted = <<>>
    /\ response = ""
    /\ op = "none"
    /\ from_cp_id \in ParamIds
    /\ to_cp_id \in ParamIds
    /\ ref_time \in ParamRefTimes
    /\ dry_run = TRUE
    /\ mapid = 0
    /\ cheated_runs = <<>>
    /\ rows = <<>>
    /\ idx = 0
    /\ csv_data = <<>>
    /\ csv_fixed = <<>>
    /\ reverted = 0
    /\ status = 0
    /\ attempted = {}
    /\ outcome = Empty
    /\ BfsIdle
    /\ batchPre = stats
    /\ orig = stats
    /\ applied = {}

NextParams == ParamsCall

SpecParams == InitParams /\ [][NextParams]_vars

\* --------------------------------- fix_cheated_runs on checkpoint tables
\* checkpoints tables: every checkpoint on map 1; only the last checkpoint
\* present; the last checkpoint on map 2
CheckpointTables ==
    { [cp \in CPs |-> [mapid |-> 1, isend |-> cp = MaxCp]],
      [cp \in {MaxCp} |-> [mapid |-> 1, isend |-> TRUE]],
      [cp \in CPs |-> [mapid |-> IF cp = MaxCp THEN 2 ELSE 1, isend |-> cp = MaxCp]] }

InitChecked ==
    /\ stats = PacedStore(0)
    /\ txOpen = 0
    /\ txWrites = Empty
    /\ connected = TRUE
    /\ pc = "idle"
    /\ run_id = 1
    /\ following_cps = {}
    /\ adjustment_ticks = 0
    /\ current_times = Empty
    /\ rows_affected = 0
    /\ updated_rows = Empty
    /\ result = FALSE
    /\ calls = {}
    /\ pre = stats
    /\ nExt = 0
    /\ checkpoints \in CheckpointTables
    /\ connections = Chain
    /\ player_runs = [r \in Runs |-> [mapid |-> 1, finished_map |-> TRUE, fps |-> 1]]
    /\ BatchIdle
    /\ BfsIdle
    /\ batchPre = stats
    /\ orig = stats
    /\ applied = {}

SpecChecked == InitChecked /\ [][NextBatch]_vars

\* ------------------------------------- fix_cheated_runs on tied candidates
\* records whose runs differ in the time at checkpoint 1 and agree from
\* checkpoint 2 on: equal fps and equal final time, so that the sort leaves
\* the candidates in the order of the fetched rows, which is any order
TiedStore == [k \in Keys |-> IF k[2] = 1 THEN k[1] ELSE MaxRun + k[2] - 1]

InitOrder ==
    /\ stats = TiedStore
    /\ txOpen = 0
    /\ txWrites = Empty
    /\ connected = TRUE
    /\ pc = "idle"
    /\ run_id = 1
    /\ following_cps = {}
    /\ adjustment_ticks = 0
    /\ current_times = Empty
    /\ rows_affected = 0
    /\ updated_rows = Empty
    /\ result = FALSE
    /\ calls = {}
    /\ pre = stats
    /\ nExt = 0
    /\ checkpoints = [cp \in CPs |-> [mapid |-> 1, isend |-> cp = MaxCp]]
    /\ connections = Chain
    /\ player_runs = [r \in Runs |-> [mapid |-> 1, finished_map |-> TRUE, fps |-> 1]]
    /\ BatchIdle
    /\ BfsIdle
    /\ batchPre = stats
    /\ orig = stats
    /\ applied = {}

SpecOrder == InitOrder /\ [][NextBatch]_vars

\* ------------------------------------ revert_from_csv on an edited graph
\* checkpoint_connections is edited between the live batch and the revert:
\* the connection into the last checkpoint is deleted
GraphEdit ==
    /\ pc = "after_main"
    /\ csv_fixed # <<>>
    /\ connections = Chain
    /\ connections' = Chain \ {<<MaxCp - 1, MaxCp, 1>>}
    /\ UNCHANGED <<storeVars, pc, fixVars, nExt, checkpoints, player_runs, logVars, fmtVars, mainVars, bfsVars,
                   batchVars, ghostVars, tripVars>>

InitRegraph ==
    /\ stats = PacedStore(0)
    /\ txOpen = 0
    /\ txWrites = Empty
    /\ connected = TRUE
    /\ pc = "idle"
    /\ run_id = 1
    /\ following_cps = {}
    /\ adjustment_ticks = 0
    /\ current_times = Empty
    /\ rows_affected = 0
    /\ updated_rows = Empty
    /\ result = FALSE
    /\ calls = {}
    /\ pre = stats
    /\ nExt = 0
    /\ checkpoints = [cp \in CPs |-> [mapid |-> 1, isend |-> cp = MaxCp]]
    /\ connections = Chain
    /\ player_runs = [r \in Runs |-> [mapid |-> 1, finished_map |-> TRUE, fps |-> 1]]
    /\ BatchIdle
    /\ BfsIdle
    /\ batchPre = stats
    /\ orig = stats
    /\ applied = {}

NextRegraph ==
    \/ NextBatch
    \/ GraphEdit

SpecRegraph == InitRegraph /\ [][NextRegraph]_vars

\* ------------------------------------------------ ticks_to_time_format
\* the characters of a decimal digit
DigitChars == <<"0", "1", "2", "3", "4", "5", "6", "7", "8", "9">>

\* the decimal digits of a natural number, as "d" formats it
RECURSIVE Decimal(_)
Decimal(n) ==
    IF n < 10 THEN <<DigitChars[n + 1]>>
              ELSE Append(Decimal(n \div 10), DigitChars[(n % 10) + 1])

\* zero padding on the left to a minimum width: the "0w" of a format
RECURSIVE ZeroPad(_, _)
ZeroPad(str, width) ==
    IF Len(str) >= width THEN str ELSE ZeroPad(<<"0">> \o str, width)

ticks_to_time_format_m(t) ==
    LET total_seconds == t * TickUnits
        minutes == total_seconds \div (60 * RefUnit)
        seconds == total_seconds % (60 * RefUnit)
    IN Decimal(minutes) \o <<":">>
          \o ZeroPad(Decimal(seconds \div RefUnit) \o <<".">>
                        \o ZeroPad(Decimal(seconds % RefUnit), 2), 5)

\* total_seconds = ticks / 20 (here in hundredths), minutes = total_seconds // 60,
\* seconds = total_seconds % 60, f"{minutes:02d}:{seconds:05.2f}"
ticks_to_time_format(t) ==
    LET total_seconds == t * TickUnits
        minutes == total_seconds \div (60 * RefUnit)
        seconds == total_seconds % (60 * RefUnit)
    IN ZeroPad(Decimal(minutes), 2) \o <<":">>
          \o ZeroPad(Decimal(seconds \div RefUnit) \o <<".">>
                        \o ZeroPad(Decimal(seconds % RefUnit), 2), 5)

\* tick counts: the first seconds, around one minute, around one hour and
\* around one hundred minutes
FormatTicks ==
    (0..40) \cup {1195 + i : i \in 0..15}
            \cup {71999, 72000, 72001, 119999, 120000, 120010}

\* ticks_to_time_format(ticks)
FormatCall ==
    /\ pc = "idle"
    /\ formatted' = ticks_to_time_format(ticks)
    /\ pc' = "format_ret"
    /\ UNCHANGED <<storeVars, fixVars, nExt, dbVars, logVars, bfsVars, batchVars, ghostVars,
                   tripVars, ticks, mainVars>>

InitFormat ==
    /\ stats = PacedStore(0)
    /\ txOpen = 0
    /\ txWrites = Empty
    /\ connected = TRUE
    /\ pc = "idle"
    /\ run_id = 1
    /\ following_cps = {}
    /\ adjustment_ticks = 0
    /\ current_times = Empty
    /\ rows_affected = 0
    /\ updated_rows = Empty
    /\ result = FALSE
    /\ calls = {}
    /\ pre = stats
    /\ nExt = 0
    /\ checkpoints = [cp \in CPs |-> [mapid |-> 1, isend |-> cp = MaxCp]]
    /\ connections = Chain
    /\ player_runs = [r \in Runs |-> [mapid |-> 1, finished_map |-> TRUE, fps |-> 1]]
    /\ warnings = {}
    /\ accessed = {}
    /\ validated = {}
    /\ error = NoError
    /\ ticks \in FormatTicks
    /\ formatted = <<>>
    /\ response = ""
    /\ op = "none"
    /\ from_cp_id = 0
    /\ to_cp_id = 0
    /\ ref_time = 0
    /\ dry_run = TRUE
    /\ mapid = 0
    /\ cheated_runs = <<>>
    /\ rows = <<>>
    /\ idx = 0
    /\ csv_data = <<>>
    /\ csv_fixed = <<>>
    /\ reverted = 0
    /\ status = 0
    /\ attempted = {}
    /\ outcome = Empty
    /\ BfsIdle
    /\ batchPre = stats
    /\ orig = stats
    /\ applied = {}

NextFormat == FormatCall

SpecFormat == InitFormat /\ [][NextFormat]_vars

\* ------------------------------------------------------------- claims
\* the table a committed repair of (r, S, d) makes of table s
Adjusted(s, r, S, d) ==
    [k \in DOMAIN s |-> IF k[1] = r /\ k[2] \in S THEN s[k] + d ELSE s[k]]

\* every row of the re-read equals its snapshot value plus the adjustment
RereadMatches ==
    \A cp \in DOMAIN updated_rows :
        /\ cp \in DOMAIN current_times
        /\ updated_rows[cp] = current_times[cp] + adjustment_ticks

\* C1: fix_cheated_run commits only after the re-read has been issued and
\* every re-read row equals snapshot + adjustment_ticks; after a re-read with
\* a mismatching row the transaction is rolled back and the result is False;
\* the result is True exactly when the transaction was committed.
C1_CommitOnlyAfterVerification ==
    /\ (pc = "fix_commit" \/ "commit" \in calls) =>
          /\ {"start_transaction", "select", "update", "reselect"} \subseteq calls
          /\ RereadMatches
    /\ (pc = "fix_ret" /\ "reselect" \in calls /\ ~RereadMatches) =>
          /\ result = FALSE
          /\ "rollback" \in calls
          /\ "commit" \notin calls
    /\ pc = "fix_ret" => (result = TRUE <=> "commit" \in calls)

C1_Witness ==
    /\ pc = "fix_ret"
    /\ result = TRUE
    /\ "commit" \in calls
    /\ Cardinality(DOMAIN updated_rows) >= 2

\* C2: while fix_cheated_run(r, S, d) runs and when it has returned, the
\* committed table is either the table before the call (result False) or that
\* table with every existing record (r, cp), cp in S, increased by exactly d
\* (result True); no committed table has only part of the records adjusted.
C2_AllOrNothing ==
    pc \in FixSteps \cup {"fix_ret"} =>
        \/ result = TRUE /\ stats = Adjusted(pre, run_id, following_cps, adjustment_ticks)
        \/ result = FALSE /\ stats = pre

C2_Witness ==
    /\ pc = "fix_ret"
    /\ result = TRUE
    /\ Cardinality(MatchedKeys(run_id, following_cps)) >= 2
    /\ \E k \in DOMAIN stats : k[1] = run_id /\ k[2] \notin following_cps

\* C3: fix_cheated_run(r, S, d) changes only time_played of records (r, cp)
\* with cp in S: every record of another run and every record of r outside S
\* keeps its value, and no record key is created or deleted.
C3_FrameState ==
    pc \in FixSteps \cup {"fix_ret"} =>
        /\ DOMAIN stats = DOMAIN pre
        /\ \A k \in DOMAIN stats :
              (k[1] # run_id \/ k[2] \notin following_cps) => stats[k] = pre[k]

C3_Frame == [] C3_FrameState /\ [][DOMAIN stats' = DOMAIN stats]_vars

C3_Witness ==
    /\ pc = "fix_ret"
    /\ result = TRUE
    /\ stats # pre
    /\ \E k \in DOMAIN stats : k[1] # run_id /\ k[2] \in following_cps
    /\ \E k \in DOMAIN stats : k[1] = run_id /\ k[2] \notin following_cps

\* C5: when the UPDATE of fix_cheated_run affects zero rows, the transaction
\* is rolled back, the result is False and the committed table is the table
\* before the call.
C5_ZeroRowsRollsBack ==
    (pc \in {"fix_verify", "fix_commit", "fix_ret"}
        /\ (calls \cap {"update", "reselect", "commit"}) # {}
        /\ MatchedKeys(run_id, following_cps) = {}) =>
            /\ pc = "fix_ret"
            /\ "rollback" \in calls
            /\ "commit" \notin calls
            /\ result = FALSE
            /\ txOpen = 0
            /\ stats = pre

C5_Witness ==
    /\ pc = "fix_ret"
    /\ "update" \in calls
    /\ rows_affected = 0
    /\ DOMAIN current_times # {}
    /\ "rollback" \in calls

\* C7: when following_cps is empty or the connection is not alive,
\* fix_cheated_run returns False without starting a transaction and without
\* issuing any read or update.
C7_FailFast ==
    (pc \in FixSteps \cup {"fix_ret"} /\ (following_cps = {} \/ ~connected)) =>
        /\ pc = "fix_ret"
        /\ result = FALSE
        /\ calls = {}
        /\ txOpen = 0
        /\ txWrites = Empty
        /\ stats = pre

C7_Witness ==
    /\ pc = "fix_ret"
    /\ ~connected
    /\ following_cps # {}
    /\ MatchedKeys(run_id, following_cps) # {}

\* C8: when a store call of fix_cheated_run raises after start_transaction
\* (the snapshot read, the update, the re-read or the commit), the
\* transaction is rolled back, the result is False and the committed table is
\* the table before the call.
C8_StoreErrorRollsBack ==
    (pc = "fix_ret" /\ (calls \cap FixSteps) # {}) =>
        /\ "rollback" \in calls
        /\ "commit" \notin calls
        /\ result = FALSE
        /\ txOpen = 0
        /\ txWrites = Empty
        /\ stats = pre

C8_Witness ==
    /\ pc = "fix_ret"
    /\ "fix_commit" \in calls
    /\ "update" \in calls
    /\ result = FALSE
    /\ stats = pre

\* the run ids of the candidates of the running batch, in loop order
CandidateRun(i) == cheated_runs[i].run_id

\* the records of run r are those of table s, the records at checkpoints S raised by d
RunAdjusted(r, s, S, d) ==
    \A k \in DOMAIN stats :
        k[1] = r => stats[k] = IF k[2] \in S THEN s[k] + d ELSE s[k]

\* C4: round trip: when revert_from_csv commits the row of a run whose last
\* committed change is a repair, every time_played of that run is again the
\* value it had before the repair (the graph being the same).
C4_RoundTrip ==
    [][(pc = "rev_commit" /\ pc' = "rev_row" /\ "commit" \in calls' /\ run_id \in applied) =>
          \A k \in DOMAIN stats : k[1] = run_id => stats'[k] = orig[k]]_vars

C4_Witness ==
    /\ op = "revert"
    /\ pc = "rev_row"
    /\ "commit" \in calls
    /\ adjustment_ticks > 0
    /\ Cardinality(MatchedKeys(run_id, following_cps)) >= 2
    /\ stats # pre
    /\ \A k \in DOMAIN stats : k[1] = run_id => stats[k] = orig[k]

\* C6: revert_from_csv commits a row only after it has snapshotted the
\* pre-image, the UPDATE has changed at least one row and the re-read rows all
\* equal pre-image - adjustment (the protocol of fix_cheated_run with
\* subtraction).
C6_RevertSameProtocol ==
    (op = "revert" /\ "commit" \in calls) =>
        /\ {"select", "reselect"} \subseteq calls
        /\ rows_affected # 0
        /\ DOMAIN updated_rows = {k[2] : k \in MatchedKeys(run_id, following_cps)}
        /\ \A cp \in DOMAIN updated_rows :
              updated_rows[cp] = current_times[cp] - adjustment_ticks

\* C9: in a live batch every candidate before the loop position has been
\* attempted, whatever the results of the earlier ones; the records of a run
\* whose repair failed are those before the batch and the records of a run
\* whose repair succeeded are adjusted.
C9_BatchIsolation ==
    (op = "batch" /\ ~dry_run /\ pc = "batch_loop") =>
        \A i \in 1..Len(cheated_runs) :
            \/ i >= idx /\ idx <= Len(cheated_runs)
            \/ /\ i < idx
               /\ CandidateRun(i) \in attempted
               /\ CandidateRun(i) \in DOMAIN outcome
               /\ RunAdjusted(CandidateRun(i), batchPre,
                              get_following_checkpoints(to_cp_id, cheated_runs[i].mapid),
                              IF outcome[CandidateRun(i)]
                                 THEN cheated_runs[i].adjustment_ticks ELSE 0)

C9_Witness ==
    /\ op = "batch"
    /\ ~dry_run
    /\ pc = "batch_loop"
    /\ Len(cheated_runs) >= 2
    /\ idx > Len(cheated_runs)
    /\ ~outcome[CandidateRun(1)]
    /\ outcome[CandidateRun(2)]
    /\ cheated_runs[2].adjustment_ticks > 0
    /\ stats # batchPre

\* C10: at most one transaction is open, and none is open when
\* fix_cheated_run has returned, between the rows of a revert, between the
\* runs of a batch and between operations.
TxSteps == {"fix_snapshot", "fix_update", "fix_verify", "fix_commit", "rev_update", "rev_commit"}

C10_OneTransaction ==
    /\ txOpen <= 1
    /\ pc \notin TxSteps => txOpen = 0 /\ txWrites = Empty

C10_Witness ==
    /\ op = "revert"
    /\ pc = "rev_start"
    /\ idx = 2
    /\ reverted = 0
    /\ txOpen = 0

\* C11: a successful repair with a positive adjustment keeps the order of the
\* recorded times of the run: a checkpoint whose time was lower than that of
\* another checkpoint of the run before the batch does not have the higher
\* time after the repair.
C11_OrderPreserved ==
    (op = "batch" /\ ~dry_run /\ pc = "batch_loop") =>
        \A i \in 1..Len(cheated_runs) :
            (i < idx /\ CandidateRun(i) \in DOMAIN outcome /\ outcome[CandidateRun(i)]
                /\ cheated_runs[i].adjustment_ticks > 0) =>
                \A a, b \in CPs :
                    LET r == CandidateRun(i) IN
                    (<<r, a>> \in DOMAIN stats /\ <<r, b>> \in DOMAIN stats
                        /\ batchPre[<<r, a>>] < batchPre[<<r, b>>]) =>
                            stats[<<r, a>>] <= stats[<<r, b>>]

\* C12: a run whose repair in a live batch added time and succeeded is not selected again by
\* the detector called with the same from_cp_id, to_cp_id and ref_time (no
\* other session having written): its segment time is no longer below the
\* reference time.
C12_NotFlaggedAgain ==
    (op = "batch" /\ ~dry_run /\ pc = "batch_loop" /\ nExt = 0) =>
        \A i \in 1..Len(cheated_runs) :
            (i < idx /\ CandidateRun(i) \in DOMAIN outcome /\ outcome[CandidateRun(i)]
                /\ cheated_runs[i].adjustment_ticks > 0) =>
                CandidateRun(i) \notin SegmentRows(from_cp_id, to_cp_id, ref_time)

\* the checkpoints reachable from the checkpoints S by zero or more
\* connections of map m (least fixpoint)
RECURSIVE Closure(_, _)
Closure(S, m) ==
    LET N == S \cup {e[2] : e \in {c \in connections : c[1] \in S /\ c[3] = m}}
    IN IF N = S THEN S ELSE Closure(N, m)
ReachSet(cp, m) == Closure({cp}, m)

\* C13: get_following_checkpoints returns exactly the checkpoints reachable
\* from the start checkpoint by zero or more connections of the given map;
\* for a start checkpoint without outgoing connection of that map it returns
\* the set holding only the start checkpoint.
C13_ExactDownstream ==
    pc = "gf_ret" =>
        /\ following = ReachSet(to_cp_id, mapid)
        /\ (\A c \in connections : ~(c[1] = to_cp_id /\ c[3] = mapid)) =>
              following = {to_cp_id}

C13_Witness ==
    /\ pc = "gf_ret"
    /\ Cardinality(following) >= 2
    /\ \E c \in connections : c[3] # mapid /\ c[1] \in following /\ c[2] \notin following

\* C14: at every iteration of the traversal of get_following_checkpoints and
\* in its result, the set following contains the start checkpoint.
C14_ContainsStart ==
    pc \in {"gf_loop", "gf_ret"} => to_cp_id \in following

C14_Witness ==
    /\ pc = "gf_ret"
    /\ <<to_cp_id, to_cp_id, mapid>> \in connections
    /\ \E c \in ChildSet(to_cp_id, mapid) : c # to_cp_id /\ to_cp_id \in ReachSet(c, mapid)

\* C15: the loops of get_following_checkpoints and validate_checkpoints
\* return on every connection table, cyclic ones included, and fetch the
\* children of no checkpoint more than once.
C15_Termination ==
    /\ [](\A cp \in CPs : expanded[cp] <= 1)
    /\ (pc \in {"gf_loop", "vc_loop"}) ~> (pc \in {"gf_ret", "vc_ret"})

C15_Witness ==
    /\ pc = "gf_ret"
    /\ \E c \in ChildSet(to_cp_id, mapid) : c # to_cp_id /\ to_cp_id \in ReachSet(c, mapid)
    /\ \A cp \in following : expanded[cp] = 1
    /\ Cardinality(following) = MaxCp

\* C16: the set get_following_checkpoints returns does not depend on the
\* order in which the store returns the children: with any orders it is the
\* set the traversal finds when every fetch is in ascending order.
C16_OrderIndependence ==
    pc = "gf_ret" => following = get_following_checkpoints(to_cp_id, mapid)

C16_Witness ==
    /\ pc = "gf_ret"
    /\ shuffled
    /\ Cardinality(following) >= 3
    /\ \E cp \in following : Cardinality(ChildSet(cp, mapid) \cap visited) >= 2

Returned == {cheated_runs[i].run_id : i \in 1..Len(cheated_runs)}

\* run r has a record at a final checkpoint of its map
HasTerminal(r) ==
    \E cp \in CPs :
        /\ checkpoints[cp].isend
        /\ checkpoints[cp].mapid = player_runs[r].mapid
        /\ <<r, cp>> \in DOMAIN stats

\* the segment of run r between from_cp_id and to_cp_id is forward and
\* shorter than the reference time: toTime - fromTime < 20 * ref_time
ShortSegment(r) ==
    /\ <<r, from_cp_id>> \in DOMAIN stats
    /\ <<r, to_cp_id>> \in DOMAIN stats
    /\ stats[<<r, to_cp_id>>] > stats[<<r, from_cp_id>>]
    /\ (stats[<<r, to_cp_id>>] - stats[<<r, from_cp_id>>]) * RefUnit < TicksPerSecond * ref_time

\* C18: find_cheated_runs returns a run only if it is finished and its
\* records satisfy toTime > fromTime and toTime - fromTime < 20 * ref_time,
\* and it returns every such run that has a record at a final checkpoint.
C18_DetectorSelects ==
    pc = "find_ret" =>
        /\ \A r \in Returned : player_runs[r].finished_map /\ ShortSegment(r)
        /\ \A r \in Runs :
              (player_runs[r].finished_map /\ ShortSegment(r) /\ HasTerminal(r)) =>
                  r \in Returned

C18_Witness ==
    /\ pc = "find_ret"
    /\ ref_time = 1000
    /\ \E i \in 1..Len(cheated_runs) :
          /\ stats[<<cheated_runs[i].run_id, to_cp_id>>]
                - stats[<<cheated_runs[i].run_id, from_cp_id>>] = 100
          /\ cheated_runs[i].adjustment_ticks = 100
    /\ \E r \in Runs \ Returned :
          /\ player_runs[r].finished_map
          /\ HasTerminal(r)
          /\ stats[<<r, to_cp_id>>] - stats[<<r, from_cp_id>>] = 250

\* C19: every run find_cheated_runs returns for an accepted reference time
\* has adjustment_ticks > 0.
C19_PositiveDeficit ==
    (pc = "find_ret" /\ validate_input_parameters(from_cp_id, to_cp_id, ref_time)) =>
        \A i \in 1..Len(cheated_runs) : cheated_runs[i].adjustment_ticks > 0

\* x / TickUnits rounded to the nearest integer, for x >= 0 (TickUnits is
\* odd: no tie)
RoundTicks(x) == (x + TickUnits \div 2) \div TickUnits

\* C20: every run find_cheated_runs returns for an accepted reference time
\* has adjustment_ticks = round(20 * ref_time - (toTime - fromTime)).
C20_RoundedDeficit ==
    (pc = "find_ret" /\ validate_input_parameters(from_cp_id, to_cp_id, ref_time)) =>
        \A i \in 1..Len(cheated_runs) :
            LET r == cheated_runs[i].run_id
                diff == stats[<<r, to_cp_id>>] - stats[<<r, from_cp_id>>]
            IN cheated_runs[i].adjustment_ticks = RoundTicks(ref_time - diff * TickUnits)

\* C21: right after the detector of a batch has returned, the runs that match
\* the segment filter but have no record at a final checkpoint of their map
\* are exactly the runs reported with a warning; none of them is a candidate,
\* every other matching run is a candidate and the batch goes on with these.
C21_SkipWithWarning ==
    (op = "batch" /\ pc = "batch_loop" /\ idx = 1 /\ attempted = {}) =>
        /\ warnings = {r \in Runs : player_runs[r].finished_map /\ ShortSegment(r)
                                      /\ ~HasTerminal(r)}
        /\ Returned \cap warnings = {}
        /\ Returned = {r \in Runs : player_runs[r].finished_map /\ ShortSegment(r)
                                      /\ HasTerminal(r)}
        /\ Returned # {}

C21_Witness ==
    /\ op = "batch"
    /\ ~dry_run
    /\ pc = "batch_loop"
    /\ idx > Len(cheated_runs)
    /\ warnings # {}
    /\ \E r \in Returned : r \in DOMAIN outcome /\ outcome[r]

\* C22: validate_input_parameters raises exactly when from_cp_id <= 0 or
\* to_cp_id <= 0 or both are equal or ref_time <= 0.05 s or ref_time > 3600 s;
\* equal identifiers are rejected for every reference time, 0.05 s is rejected
\* and 3600 s is accepted.
C22_ParameterValidation ==
    pc = "params_ret" =>
        /\ raised <=> \/ from_cp_id <= 0
                      \/ to_cp_id <= 0
                      \/ from_cp_id = to_cp_id
                      \/ ref_time <= 5
                      \/ ref_time > 360000
        /\ from_cp_id = to_cp_id => raised
        /\ ref_time = 5 => raised
        /\ (from_cp_id > 0 /\ to_cp_id > 0 /\ from_cp_id # to_cp_id /\ ref_time = 360000)
              => ~raised

C22_Witness ==
    /\ pc = "params_ret"
    /\ ~raised
    /\ ref_time = 360000
    /\ from_cp_id > to_cp_id

\* the arguments of the current batch fail validate_input_parameters
BadParameters ==
    \/ from_cp_id <= 0
    \/ to_cp_id <= 0
    \/ from_cp_id = to_cp_id
    \/ ref_time <= MinRefTime
    \/ ref_time > MaxRefTime

\* C23: when fix_cheated_runs is called with arguments that fail the parameter
\* validation, it has returned the error status without having queried the
\* store, without a transaction, and the records are as they were at the call.
C23_ParamFailureBeforeStore ==
    (op = "batch" /\ BadParameters /\ pc # "batch_params") =>
        /\ pc = "batch_ret"
        /\ status = 1
        /\ accessed = {}
        /\ calls = {}
        /\ txOpen = 0
        /\ txWrites = Empty
        /\ stats = batchPre
        /\ cheated_runs = <<>>

C23_Witness ==
    /\ op = "batch"
    /\ pc = "batch_ret"
    /\ status = 1
    /\ from_cp_id \in DOMAIN checkpoints
    /\ to_cp_id \in DOMAIN checkpoints
    /\ \/ from_cp_id = to_cp_id
       \/ ref_time = MinRefTime
    /\ accessed = {}

\* the checkpoints of the current batch fail validate_checkpoints
MissingCheckpoint == {from_cp_id, to_cp_id} \ DOMAIN checkpoints # {}
DifferentMaps ==
    /\ {from_cp_id, to_cp_id} \subseteq DOMAIN checkpoints
    /\ checkpoints[from_cp_id].mapid # checkpoints[to_cp_id].mapid

\* C24: when a checkpoint of the batch does not exist or the two are on
\* different maps, validate_checkpoints has raised a ValidationError that names
\* every missing identifier, respectively both identifiers, and the batch has
\* returned the error status without running the detector or a repair.
C24_CheckpointFailureStops ==
    (/\ op = "batch"
     /\ ~BadParameters
     /\ pc \notin {"batch_params", "batch_checkpoints"}
     /\ MissingCheckpoint \/ DifferentMaps) =>
        /\ pc = "batch_ret"
        /\ status = 1
        /\ error.kind # "none"
        /\ MissingCheckpoint => error.ids = {from_cp_id, to_cp_id} \ DOMAIN checkpoints
        /\ DifferentMaps => error.ids = {from_cp_id, to_cp_id}
        /\ "find_cheated_runs" \notin accessed
        /\ cheated_runs = <<>>
        /\ attempted = {}
        /\ calls = {}
        /\ stats = batchPre

C24_Witness ==
    /\ op = "batch"
    /\ pc = "batch_ret"
    /\ status = 1
    /\ DifferentMaps
    /\ error = [kind |-> "different maps", ids |-> {from_cp_id, to_cp_id}]
    /\ accessed = {"validate_checkpoints"}

\* the checkpoint pair whose segment the current operation is repairing
RepairedPair ==
    IF op = "revert"
       THEN <<rows[idx].from_cp_id, rows[idx].to_cp_id>>
       ELSE <<from_cp_id, to_cp_id>>

\* C25: whenever a batch or a revert has issued an UPDATE of segment records
\* that it is about to verify or commit, the same operation has passed the
\* parameter validation and the checkpoint validation for the pair it repairs.
C25_ValidatedBeforeMutation ==
    (op \in {"batch", "revert"} /\ pc \in {"fix_verify", "fix_commit", "rev_commit"}) =>
        /\ <<"parameters", RepairedPair[1], RepairedPair[2]>> \in validated
        /\ <<"checkpoints", RepairedPair[1], RepairedPair[2]>> \in validated

\* the batch has passed both validations and to_cp_id cannot be reached from
\* from_cp_id over the connections of their map
UnreachablePair ==
    /\ op = "batch"
    /\ ~BadParameters
    /\ ~MissingCheckpoint
    /\ ~DifferentMaps
    /\ pc \notin {"batch_params", "batch_checkpoints"}
    /\ to_cp_id \notin ReachSet(from_cp_id, checkpoints[from_cp_id].mapid)

\* C26: when to_cp_id is not reachable from from_cp_id, validate_checkpoints
\* has returned reachable = False without an error, a dry run does not return
\* before the detector has run, and every repair of the batch is given the
\* checkpoints downstream of to_cp_id - the set it is given for any pair,
\* reachable or not.
C26_UnreachableNonFatal ==
    /\ UnreachablePair =>
          /\ ~reachable
          /\ error = NoError
          /\ <<"checkpoints", from_cp_id, to_cp_id>> \in validated
          /\ (dry_run /\ pc = "batch_ret") => "find_cheated_runs" \in accessed
    /\ (op = "batch" /\ pc \in FixSteps \cup {"fix_ret"}) =>
          following_cps = ReachSet(to_cp_id, mapid)

C26_Witness ==
    /\ UnreachablePair
    /\ ~dry_run
    /\ pc = "fix_ret"
    /\ result
    /\ stats # batchPre
    /\ following_cps = ReachSet(to_cp_id, mapid)

\* C27: a dry run of the batch has opened no transaction and issued no
\* statement of a repair, no run has been handed to fix_cheated_run, and the
\* records equal those at the call of the batch.
C27_DryRunReadOnly ==
    (op = "batch" /\ dry_run) =>
        /\ txOpen = 0
        /\ txWrites = Empty
        /\ calls = {}
        /\ attempted = {}
        /\ pc \notin FixSteps \cup {"fix_ret"}
        /\ stats = batchPre

C27_Witness ==
    /\ op = "batch"
    /\ dry_run
    /\ pc = "batch_ret"
    /\ status = 0
    /\ Len(csv_data) = Len(cheated_runs)
    /\ Len(cheated_runs) >= 2
    /\ stats = batchPre

\* the candidates of the running batch as a set, whatever their order
CandidateSet == {cheated_runs[i] : i \in DOMAIN cheated_runs}

\* the records after the repairs of the candidates that succeeded, computed
\* from the records before the batch without reference to the loop order
RepairedTable ==
    [k \in DOMAIN batchPre |->
        LET hits == {c \in CandidateSet : /\ c.run_id = k[1]
                                          /\ c.run_id \in DOMAIN outcome
                                          /\ outcome[c.run_id]
                                          /\ k[2] \in ReachSet(to_cp_id, c.mapid)}
        IN IF hits = {} THEN batchPre[k]
                        ELSE batchPre[k] + (CHOOSE c \in hits : TRUE).adjustment_ticks]

\* C28: when the loop of a live batch has gone through its candidates, in
\* whichever order the detector listed them, the records are the records from
\* before the batch with each successfully repaired run raised by its own
\* adjustment at the checkpoints downstream of to_cp_id: the result depends on
\* the set of repaired runs, not on their order.
C28_RepairsCommute ==
    (op = "batch" /\ ~dry_run /\ pc = "batch_loop" /\ idx > Len(cheated_runs)) =>
        /\ stats = RepairedTable
        /\ Cardinality(CandidateSet) = Len(cheated_runs)

C28_Witness ==
    /\ op = "batch"
    /\ ~dry_run
    /\ pc = "batch_loop"
    /\ idx > Len(cheated_runs)
    /\ Len(cheated_runs) >= 2
    /\ CandidateRun(1) > CandidateRun(2)
    /\ cheated_runs[1].adjustment_ticks # cheated_runs[2].adjustment_ticks
    /\ \A c \in CandidateSet : c.run_id \in DOMAIN outcome /\ outcome[c.run_id]
    /\ stats # batchPre

\* the checkpoints of run r whose record differs from the one before the
\* repair of r: the set the repair updated
RepairedCps(r) ==
    {cp \in CPs : <<r, cp>> \in DOMAIN stats /\ stats[<<r, cp>>] # orig[<<r, cp>>]}

\* C29: while revert_from_csv works on a row, its target set is the set of
\* checkpoints reachable from the row's to_cp_id over the connections as they
\* are now, and the row carries no checkpoint set.
C29_RevertRecomputes ==
    (op = "revert" /\ pc \in RevertSteps) =>
        /\ following_cps = ReachSet(rows[idx].to_cp_id, rows[idx].mapid)
        /\ DOMAIN rows[idx] = {"run_id", "mapid", "from_cp_id", "to_cp_id",
                               "old_time_played", "new_time_played"}

C29_Witness ==
    /\ op = "revert"
    /\ pc = "rev_commit"
    /\ run_id \in applied
    /\ adjustment_ticks > 0
    /\ nExt = 0
    /\ connections # Chain
    /\ following_cps # RepairedCps(run_id)
    /\ following_cps = ReachSet(rows[idx].to_cp_id, rows[idx].mapid)

\* C30: the call of find_cheated_runs leaves every record of
\* checkpoint_statistics, every run, every checkpoint and every connection as
\* it was, opens no transaction and issues no write.
C30_DetectorReadOnly ==
    [][(pc = "idle" /\ pc' = "find_ret") =>
          /\ stats' = stats
          /\ player_runs' = player_runs
          /\ checkpoints' = checkpoints
          /\ connections' = connections
          /\ txOpen' = txOpen
          /\ txWrites' = txWrites
          /\ calls' = calls]_vars

C30_Witness ==
    /\ pc = "find_ret"
    /\ cheated_runs # <<>>
    /\ warnings # {}
    /\ stats = orig
    /\ txOpen = 0

\* C31: the list find_cheated_runs returns is ascending by fps and, among
\* runs of equal fps, ascending by old_time_played, where fps is the rate of
\* the run in player_runs and old_time_played its time at the final checkpoint.
C31_SortedOutput ==
    pc = "find_ret" =>
        /\ \A i \in DOMAIN cheated_runs :
              /\ cheated_runs[i].fps = player_runs[cheated_runs[i].run_id].fps
              /\ cheated_runs[i].old_time_played = stats[<<cheated_runs[i].run_id, MaxCp>>]
        /\ \A i, j \in DOMAIN cheated_runs :
              i < j => \/ cheated_runs[i].fps < cheated_runs[j].fps
                       \/ /\ cheated_runs[i].fps = cheated_runs[j].fps
                          /\ cheated_runs[i].old_time_played <= cheated_runs[j].old_time_played

C31_Witness ==
    /\ pc = "find_ret"
    /\ Len(cheated_runs) >= 2
    /\ cheated_runs[1].fps < cheated_runs[2].fps
    /\ cheated_runs[1].old_time_played > cheated_runs[2].old_time_played

\* the number a sequence of digit characters denotes
RECURSIVE DigitsValue(_)
DigitsValue(str) ==
    IF str = <<>> THEN 0
    ELSE 10 * DigitsValue(SubSeq(str, 1, Len(str) - 1))
            + (CHOOSE d \in 0..9 : DigitChars[d + 1] = str[Len(str)])

\* C32: ticks_to_time_format renders t ticks as minutes, ":", two digits of
\* seconds, ".", two decimals, where the minutes are t div 1200 written with at
\* least two digits and no further leading zero and the seconds are
\* (t mod 1200) / 20; 0, 20, 1210 and 72000 ticks give "00:00.00",
\* "00:01.00", "01:00.50" and "60:00.00".
C32_TimeFormat ==
    pc = "format_ret" =>
        LET n == Len(formatted)
            mm == SubSeq(formatted, 1, n - 6)
        IN /\ n >= 8
           /\ formatted[n - 5] = ":"
           /\ formatted[n - 2] = "."
           /\ \A i \in (1..n) \ {n - 5, n - 2} :
                 \E d \in 1..10 : formatted[i] = DigitChars[d]
           /\ DigitsValue(mm) = ticks \div 1200
           /\ Len(mm) > 2 => mm[1] # "0"
           /\ 100 * DigitsValue(SubSeq(formatted, n - 4, n - 3))
                 + DigitsValue(SubSeq(formatted, n - 1, n)) = (ticks % 1200) * 5
           /\ ticks = 0 => formatted = <<"0", "0", ":", "0", "0", ".", "0", "0">>
           /\ ticks = 20 => formatted = <<"0", "0", ":", "0", "1", ".", "0", "0">>
           /\ ticks = 1210 => formatted = <<"0", "1", ":", "0", "0", ".", "5", "0">>
           /\ ticks = 72000 => formatted = <<"6", "0", ":", "0", "0", ".", "0", "0">>

C32_Witness ==
    /\ pc = "format_ret"
    /\ ticks = 1210
    /\ formatted = <<"0", "1", ":", "0", "0", ".", "5", "0">>

\* the run of the current call has no record at any checkpoint of the
\* non-empty set it was called with
NoRecordInSet ==
    /\ following_cps # {}
    /\ \A k \in DOMAIN stats : ~(k[1] = run_id /\ k[2] \in following_cps)

\* C33: when the run has no record at any checkpoint of following_cps,
\* fix_cheated_run writes nothing, does not get as far as the verification or
\* the commit, and has returned False with the table as before the call once
\* it has returned - whether the snapshot was empty or the UPDATE matched no row.
C33_NoRecordAborts ==
    (pc \in FixSteps \cup {"fix_ret"} /\ NoRecordInSet) =>
        /\ txWrites = Empty
        /\ pc \notin {"fix_verify", "fix_commit"}
        /\ "commit" \notin calls
        /\ pc = "fix_ret" => /\ result = FALSE
                             /\ txOpen = 0
                             /\ stats = pre

C33_Witness ==
    /\ pc = "fix_ret"
    /\ NoRecordInSet
    /\ connected
    /\ current_times = Empty
    /\ {"select", "rollback"} \subseteq calls
    /\ "update" \notin calls
    /\ result = FALSE

\* C34: in the flow of main a live batch starts only from a dry run that has
\* returned without error status - both validations passed, candidates found -
\* on the answer "yes" and with the same arguments; and a step of the flow
\* changes the records only in a live batch started that way.
C34_LiveOnlyAfterConfirmedDryRun ==
    [][/\ (op' = "batch" /\ ~dry_run' /\ (dry_run \/ op # "batch")) =>
             /\ op = "batch"
             /\ dry_run
             /\ pc = "batch_ret"
             /\ status = 0
             /\ cheated_runs # <<>>
             /\ <<"parameters", from_cp_id, to_cp_id>> \in validated
             /\ <<"checkpoints", from_cp_id, to_cp_id>> \in validated
             /\ response' = "yes"
             /\ from_cp_id' = from_cp_id
             /\ to_cp_id' = to_cp_id
             /\ ref_time' = ref_time
             /\ stats = batchPre
       /\ (stats' # stats /\ pc' # pc /\ op # "revert") =>
             /\ op = "batch"
             /\ ~dry_run
             /\ response = "yes"]_vars

C34_Witness ==
    /\ op = "batch"
    /\ ~dry_run
    /\ response = "yes"
    /\ pc = "fix_ret"
    /\ result
    /\ stats # batchPre

\* C35: the step of a revert in which a store call of a row fails rolls the
\* transaction of that row back, leaves the committed records and the count of
\* reverted rows as they are and moves to the next row; and the loop is left
\* only behind the last row of the audit file.
C35_RevertContinues ==
    [][/\ (op = "revert" /\ pc \in RevertSteps /\ "rollback" \in calls') =>
             /\ txOpen' = 0
             /\ txWrites' = Empty
             /\ stats' = stats
             /\ reverted' = reverted
             /\ rows' = rows
             /\ pc' = "rev_row"
             /\ idx' = idx + 1
       /\ (op = "revert" /\ pc = "rev_row" /\ pc' = "rev_ret") => idx > Len(rows)]_vars

C35_Witness ==
    /\ op = "revert"
    /\ pc = "rev_ret"
    /\ Len(rows) = 2
    /\ reverted = 1
    /\ rows[1].run_id \in applied
    /\ rows[2].run_id \notin applied
    /\ "commit" \in calls
    /\ stats # orig

\* C36: validate_checkpoints called with from_cp_id = to_cp_id, an existing
\* checkpoint, returns reachable = True without having fetched the children
\* of any checkpoint, whatever the connections are.
C36_SelfReachable ==
    (pc = "vc_ret" /\ from_cp_id = to_cp_id /\ from_cp_id \in DOMAIN checkpoints) =>
        /\ ~raised
        /\ reachable
        /\ \A cp \in CPs : expanded[cp] = 0

\* C37: for checkpoints a and b of one map, validate_checkpoints(a, b) reports
\* reachable = True exactly when b is in get_following_checkpoints(a, map).
C37_TraversalsAgree ==
    (/\ pc = "vc_ret"
     /\ {from_cp_id, to_cp_id} \subseteq DOMAIN checkpoints
     /\ checkpoints[from_cp_id].mapid = checkpoints[to_cp_id].mapid) =>
        ((~raised /\ reachable)
            <=> to_cp_id \in get_following_checkpoints(from_cp_id, checkpoints[from_cp_id].mapid))

\* C38: when a live batch has written its audit export, the export has one
\* row for each run whose repair committed and no row for any other run: a
\* run is in the export exactly when fix_cheated_run returned True for it,
\* the records of an exported run are those before the batch raised by the
\* row's difference new_time_played - old_time_played, and the records of a
\* detected run that is not exported are those before the batch.
BatchExported == IF csv_data # <<>> THEN csv_fixed ELSE <<>>

ExportedRuns == {BatchExported[j].run_id : j \in 1..Len(BatchExported)}

C38_ExportIffCommitted ==
    (op = "batch" /\ ~dry_run /\ pc = "batch_ret") =>
        /\ ExportedRuns \subseteq Returned \cap applied
        /\ Len(BatchExported) = Cardinality(ExportedRuns)
        /\ \A i \in 1..Len(cheated_runs) :
              /\ CandidateRun(i) \in ExportedRuns <=> outcome[CandidateRun(i)]
              /\ CandidateRun(i) \notin ExportedRuns =>
                    RunAdjusted(CandidateRun(i), batchPre, {}, 0)
        /\ \A j \in 1..Len(BatchExported) :
              RunAdjusted(BatchExported[j].run_id, batchPre,
                          get_following_checkpoints(BatchExported[j].to_cp_id,
                                                    BatchExported[j].mapid),
                          BatchExported[j].new_time_played - BatchExported[j].old_time_played)

C38_Witness ==
    /\ op = "batch"
    /\ ~dry_run
    /\ pc = "batch_ret"
    /\ Len(cheated_runs) = 2
    /\ Len(BatchExported) = 1
    /\ ~outcome[CandidateRun(1)]
    /\ BatchExported[1].run_id = CandidateRun(2)
    /\ BatchExported[1].new_time_played > BatchExported[1].old_time_played
    /\ stats # batchPre

====
